---------------------------- MODULE Spec2Model ----------------------------
(***************************************************************************)
(* A model of the Lox tree-walking interpreter of this repository:         *)
(* the resolver (src/src/resolver.rs), the environment chain               *)
(* (src/src/environment.rs), the evaluator (src/src/interpreter.rs) and    *)
(* the driver run_file (src/src/lox.rs).                                    *)
(*                                                                         *)
(* The Rust code is recursive; every Rust function is one operator of the  *)
(* same name that takes the state it mutates (`self`) and returns the new  *)
(* state together with the function's Result.  Rc<RefCell<Environment>>    *)
(* handles are indices into a heap `envs`, so that sharing is identity of  *)
(* index.  Fields whose name starts with `g` and the `trace` of the        *)
(* interpreter are history (ghost) data: the code does not keep them, they *)
(* record what the code did so that properties can speak about it.         *)
(***************************************************************************)
EXTENDS Integers, Sequences, FiniteSets, TLC

VARIABLES
    statements,   \* Vec<Stmt> handed by lox::run to run_file
    phase,        \* position inside run_file
    resolution,   \* what Resolver::run returned (and the resolver's last state)
    interpreter,  \* the Interpreter (heap of environments included)
    pc,           \* index of the next statement in Interpreter::interpret's loop
    reported,     \* errors handed to lox::report_runtime, in order
    scanner,      \* the Scanner of lox::run
    parser        \* the Parser of lox::run

vars == <<statements, phase, resolution, interpreter, pc, reported, scanner, parser>>

-----------------------------------------------------------------------------
(* Bounds of the model                                                     *)

\* longest generated program (top-level statements drawn from StmtPool)
MaxProgLen == 3
\* loop iterations plus calls one top-level statement may make
MaxFuel == 12
\* operands of the arithmetic checks range over -MaxNum..MaxNum
MaxNum == 2

-----------------------------------------------------------------------------
(* Result<T>, Option<T>                                                    *)

Ok(v) == [k |-> "Ok", v |-> v]
Err(e) == [k |-> "Err", e |-> e]
\* a Rust panic (expect / unreachable! / stack overflow): the process dies
Panic(why) == [k |-> "Panic", why |-> why]
\* the model's fuel ran out: not a behaviour of the program
OutOfFuel == [k |-> "OutOfFuel"]
Unit == [t |-> "Unit"]
None == [t |-> "None"]
Some(x) == [t |-> "Some", x |-> x]

IsOk(r) == r.k = "Ok"
IsErr(r) == r.k = "Err"
\* Panic and OutOfFuel unwind through every frame
IsAbort(r) == r.k \in {"Panic", "OutOfFuel"}

\* LoxError (resolver.rs uses the variant ResolverError on top of error.rs)
RuntimeError(token, msg) == [kind |-> "RuntimeError", token |-> token, msg |-> msg]
ResolverError(token, msg) == [kind |-> "ResolverError", token |-> token, msg |-> msg]
Return(value) == [kind |-> "Return", value |-> value]

\* HashMap<String, V> as a function with a finite domain of strings
EmptyMap == [x \in {} |-> None]
MapInsert(m, key, v) == [x \in (DOMAIN m) \cup {key} |-> IF x = key THEN v ELSE m[x]]
MapHas(m, key) == key \in DOMAIN m

-----------------------------------------------------------------------------
(* f64.  A number is the exact rational n/d with d > 0 in lowest terms;    *)
(* d = 0 encodes the IEEE-754 specials: 1/0 = inf, -1/0 = -inf, 0/0 = NaN. *)
(* Rounding and the sign of zero are not modelled.                         *)

Sign(n) == IF n > 0 THEN 1 ELSE IF n < 0 THEN -1 ELSE 0
Abs(n) == IF n < 0 THEN -n ELSE n

RECURSIVE Gcd(_, _)
Gcd(a, b) == IF b = 0 THEN a ELSE Gcd(b, a % b)

F64(n, d) ==
    IF d = 0 THEN [t |-> "Number", n |-> Sign(n), d |-> 0]
    ELSE LET s == Sign(d)
             g == Gcd(Abs(n), Abs(d))
         IN  [t |-> "Number", n |-> (s * n) \div g, d |-> (s * d) \div g]

Number(n) == F64(n, 1)
NaN == F64(0, 0)
IsNaN(a) == a.d = 0 /\ a.n = 0

f64_neg(a) == [a EXCEPT !.n = -a.n]
f64_add(a, b) ==
    IF a.d = 0 \/ b.d = 0
    THEN IF IsNaN(a) \/ IsNaN(b) THEN NaN
         ELSE IF a.d = 0 /\ b.d = 0 THEN (IF a.n = b.n THEN a ELSE NaN)
         ELSE IF a.d = 0 THEN a ELSE b
    ELSE F64(a.n * b.d + b.n * a.d, a.d * b.d)
f64_sub(a, b) == f64_add(a, f64_neg(b))
f64_mul(a, b) == F64(a.n * b.n, a.d * b.d)
f64_div(a, b) ==
    IF a.d = 0
    THEN IF b.d = 0 THEN NaN ELSE F64(a.n * (IF b.n < 0 THEN -1 ELSE 1), 0)
    ELSE F64(a.n * b.d, a.d * b.n)
f64_eq(a, b) == ~IsNaN(a) /\ ~IsNaN(b) /\ a.n = b.n /\ a.d = b.d
f64_lt(a, b) ==
    /\ ~IsNaN(a) /\ ~IsNaN(b)
    /\ IF a.d = 0 /\ b.d = 0 THEN a.n < b.n ELSE a.n * b.d < b.n * a.d
f64_le(a, b) == f64_lt(a, b) \/ f64_eq(a, b)

\* Display for f64: an integral value prints without a fraction.  A value
\* that is not integral is rendered as the exact fraction (the decimal
\* expansion Rust prints is not modelled).
f64_to_string(a) ==
    IF a.d = 1 THEN ToString(a.n)
    ELSE IF a.d = 0 THEN (IF a.n = 0 THEN "NaN" ELSE IF a.n > 0 THEN "inf" ELSE "-inf")
    ELSE ToString(a.n) \o "/" \o ToString(a.d)

-----------------------------------------------------------------------------
(* Object (src/src/object.rs)                                              *)

Boolean(b) == [t |-> "Boolean", b |-> b]
String(s) == [t |-> "String", s |-> s]
Nil == [t |-> "Nil"]
\* Object::Call(Box<dyn Callable>) holding a UserFunction
UserFunction(params, body, closure) ==
    [t |-> "Call", impl |-> "UserFunction", params |-> params, body |-> body,
     closure |-> closure]
\* Object::Call holding the native clock function
ClockFunction == [t |-> "Call", impl |-> "ClockFunction"]
\* Object::Call holding a LoxClass
\* (gdecl is history: the methods of the declaration the class was made for)
LoxClass(name, methods) ==
    [t |-> "Call", impl |-> "LoxClass", name |-> name, methods |-> methods,
     gdecl |-> << >>]
\* Object::ClassInstance(Rc<RefCell<LoxInstance>>): an index into instances
ClassInstance(ref) == [t |-> "ClassInstance", ref |-> ref]

is_truphy(o) ==
    IF o.t = "Boolean" THEN o.b
    ELSE IF o.t = "Nil" THEN FALSE
    ELSE TRUE

\* impl PartialEq for Object
Object_eq(x, y) ==
    IF x.t = "Boolean" /\ y.t = "Boolean" THEN x.b = y.b
    ELSE IF x.t = "Number" /\ y.t = "Number" THEN f64_eq(x, y)
    ELSE IF x.t = "String" /\ y.t = "String" THEN x.s = y.s
    ELSE IF x.t = "Nil" /\ y.t = "Nil" THEN TRUE
    ELSE FALSE

-----------------------------------------------------------------------------
(* The syntax tree (src/src/stmt.rs; the Expr variants are those the       *)
(* visitors of resolver.rs and interpreter.rs take).  A Token is modelled  *)
(* by its lexeme.  `id` is the node id minted when the node is parsed.     *)

Expr_Number(n) == [e |-> "Number", value |-> n]
Expr_String(s) == [e |-> "String", value |-> s]
Expr_Boolean(b) == [e |-> "Boolean", value |-> b]
Expr_Nil == [e |-> "Nil"]
Expr_Variable(token, id) == [e |-> "Variable", token |-> token, id |-> id]
Expr_Assign(token, value, id) ==
    [e |-> "Assign", token |-> token, value |-> value, id |-> id]
Expr_Binary(left, op, right) ==
    [e |-> "Binary", left |-> left, token |-> op, right |-> right]
Expr_Unary(op, right) == [e |-> "Unary", token |-> op, right |-> right]
Expr_Grouping(expr) == [e |-> "Grouping", expr |-> expr]
Expr_Conditional(cond, then_branch, else_branch) ==
    [e |-> "Conditional", cond |-> cond, then_branch |-> then_branch,
     else_branch |-> else_branch]
Expr_LogicOr(left, right) == [e |-> "LogicOr", left |-> left, right |-> right]
Expr_LogicAnd(left, right) == [e |-> "LogicAnd", left |-> left, right |-> right]
Expr_Call(callee, args) == [e |-> "Call", callee |-> callee, token |-> ")", args |-> args]
Expr_Get(object, property) == [e |-> "Get", object |-> object, token |-> property]
Expr_Set(object, property, value) ==
    [e |-> "Set", object |-> object, token |-> property, value |-> value]
Expr_This(id) == [e |-> "This", token |-> "this", id |-> id]

Stmt_Block(stmts) == [s |-> "Block", statements |-> stmts]
Stmt_Expression(expr) == [s |-> "Expression", expr |-> expr]
Stmt_Print(expr) == [s |-> "Print", expr |-> expr]
\* Var(Token, Option<Expr>)
Stmt_Var(token, initializer) == [s |-> "Var", token |-> token, expr |-> initializer]
\* If(Expr, Box<Stmt>, Option<Box<Stmt>>)
Stmt_If(cond, then_branch, else_branch) ==
    [s |-> "If", cond |-> cond, then_branch |-> then_branch, else_branch |-> else_branch]
Stmt_While(cond, block) == [s |-> "While", cond |-> cond, block |-> block]
Stmt_Function(token, params, body) ==
    [s |-> "Function", token |-> token, params |-> params, body |-> body]
Stmt_Return(expr) == [s |-> "Return", token |-> "return", expr |-> expr]
\* Class { token, methods: Vec<Function> }, Function = (Token, Vec<Token>, Vec<Stmt>)
Stmt_Class(token, methods) == [s |-> "Class", token |-> token, methods |-> methods]
Method(token, params, body) == [token |-> token, params |-> params, body |-> body]

\* The identity of the syntax node that opens a scope (history data: the
\* resolver's scopes and the run-time environments are compared through it).
TagGlobal == [kind |-> "Global"]
TagTop == [kind |-> "Top"]
TagBlock(stmts) == [kind |-> "Block", body |-> stmts]
TagFunction(params, body) == [kind |-> "Function", params |-> params, body |-> body]
TagThis == [kind |-> "This"]

-----------------------------------------------------------------------------
(* Environment (src/src/environment.rs).  `enclosing` is the index of the  *)
(* enclosing environment in the heap, 0 for Option::None.                  *)

Environment_new == [variables |-> EmptyMap, enclosing |-> 0, gtag |-> TagGlobal]
Environment_new_with_enclosing(enclosing, gtag) ==
    [variables |-> EmptyMap, enclosing |-> enclosing, gtag |-> gtag]

\* define(&mut self, key, value: Option<Object>)
Environment_define(self, key, value) ==
    [self EXCEPT !.variables = MapInsert(@, key, value)]

Environment_assign_or_define(self, token, value) ==
    \* mutant: a missing name is bound instead of refused
    [env |-> [self EXCEPT !.variables = MapInsert(@, token, Some(value))],
     r |-> Ok(Unit)]

\* assign(&mut self, token, value) -> Result<()>
Environment_assign(self, token, value) ==
    IF MapHas(self.variables, token)
    THEN [env |-> [self EXCEPT !.variables = MapInsert(@, token, Some(value))],
          r |-> Ok(Unit)]
    ELSE [env |-> self,
          r |-> Err(RuntimeError(token, "Undefined variable,"))]

\* get(&self, token) -> Result<Object>
Environment_get(self, token) ==
    IF MapHas(self.variables, token)
    THEN LET x == self.variables[token]
         IN  IF x.t = "Some" THEN Ok(x.x)
             ELSE Err(RuntimeError(token, "Non initialized variable"))
    ELSE Err(RuntimeError(token, "Undefined variable"))

\* assign_at(&mut self, token, value, distance): `self` is envs[at]
RECURSIVE Environment_assign_at(_, _, _, _, _)
Environment_assign_at(envs, at, token, value, distance) ==
    IF distance = 0
    THEN LET a == Environment_assign(envs[at], token, value)
         IN  [envs |-> [envs EXCEPT ![at] = a.env], r |-> a.r]
    ELSE IF envs[at].enclosing = 0
         THEN [envs |-> envs, r |-> Panic("Expected to enviroment have an eclosing environment")]
         ELSE Environment_assign_at(envs, envs[at].enclosing, token, value, distance - 1)

\* get_at(&self, token, distance)
RECURSIVE Environment_get_at(_, _, _, _)
Environment_get_at(envs, at, token, distance) ==
    IF distance = 0
    THEN Environment_get(envs[at], token)
    ELSE IF envs[at].enclosing = 0
         THEN Panic("Expected to enviroment have an eclosing environment")
         ELSE Environment_get_at(envs, envs[at].enclosing, token, distance - 1)

\* History: the environment `distance` links out of envs[at], 0 when the
\* chain is shorter; and the tags of the chain, innermost last, without the
\* global environment at its root.
RECURSIVE EnvAt(_, _, _)
EnvAt(envs, at, distance) ==
    IF at = 0 \/ distance = 0 THEN at
    ELSE EnvAt(envs, envs[at].enclosing, distance - 1)

\* History: the bindings of environment `at` (none when there is no such
\* environment)
VariablesAt(envs, at) == IF at = 0 THEN EmptyMap ELSE envs[at].variables

RECURSIVE ChainTags(_, _)
ChainTags(envs, at) ==
    IF at = 0 \/ envs[at].enclosing = 0 THEN <<>>
    ELSE Append(ChainTags(envs, envs[at].enclosing), envs[at].gtag)

-----------------------------------------------------------------------------
(* Resolver (src/src/resolver.rs)                                          *)
(* scopes: Vec<HashMap<String, VarState>>, the VarState being one of       *)
(* "Declared", "Defined", "Read".  gtags / gstacks / glog are history,     *)
(* and so is gstmt, the number of scopes around the statement in hand.     *)

Resolver_new ==
    [scopes |-> << EmptyMap >>,
     expr_id_scope_depth |-> EmptyMap,
     current_function |-> "None",
     gtags |-> << TagTop >>,
     gstacks |-> EmptyMap,
     gstmt |-> 1,
     glog |-> << >>]

RR(rs, r) == [rs |-> rs, r |-> r]

\* Result::and: both operands have been evaluated
Result_and(a, b) == IF IsOk(a) THEN b ELSE a

begin_scope(rs, gtag) ==
    [rs EXCEPT !.scopes = Append(@, EmptyMap), !.gtags = Append(@, gtag)]

end_scope(rs) ==
    IF Len(rs.scopes) = 0 THEN rs
    ELSE [rs EXCEPT !.scopes = SubSeq(@, 1, Len(@) - 1),
                    !.gtags = SubSeq(@, 1, Len(@) - 1)]

\* names of the innermost scope, and of the scopes around it
InnermostNames(rs) ==
    IF Len(rs.scopes) = 0 THEN {} ELSE DOMAIN rs.scopes[Len(rs.scopes)]
OuterNames(rs) ==
    UNION {DOMAIN rs.scopes[i] : i \in 1..(Len(rs.scopes) - 1)}

declare_already_everywhere(rs, token) ==
    \* mutant: a name of an enclosing scope counts as declared again
    LET n == Len(rs.scopes)
        rs1 == [rs EXCEPT !.glog = Append(@, [op |-> "declare", token |-> token,
                    innermost |-> InnermostNames(rs), outer |-> OuterNames(rs),
                    depth |-> Len(rs.scopes), sdepth |-> rs.gstmt])]
        rs2 == [rs1 EXCEPT !.scopes[n] = MapInsert(@, token, "Declared")]
    IN  IF token \in InnermostNames(rs) \cup OuterNames(rs)
        THEN RR(rs2, Err(ResolverError(token, "Variable already declared")))
        ELSE RR(rs2, Ok(Unit))

\* declare(&mut self, token) -> Result<()>
declare(rs, token) ==
    LET n == Len(rs.scopes)
        rs1 == [rs EXCEPT !.glog = Append(@, [op |-> "declare", token |-> token,
                    innermost |-> InnermostNames(rs), outer |-> OuterNames(rs),
                    depth |-> Len(rs.scopes), sdepth |-> rs.gstmt])]
    IN  IF n = 0 THEN RR(rs1, Ok(Unit))
        ELSE LET past_value == IF MapHas(rs.scopes[n], token)
                               THEN Some(rs.scopes[n][token]) ELSE None
                 rs2 == [rs1 EXCEPT !.scopes[n] = MapInsert(@, token, "Declared")]
             IN  IF past_value.t = "Some"
                 THEN RR(rs2, Err(ResolverError(token, "Variable already declared")))
                 ELSE RR(rs2, Ok(Unit))

\* define(&mut self, token) -> Result<()>
define(rs, token) ==
    LET n == Len(rs.scopes)
    IN  IF n = 0 THEN RR(rs, Ok(Unit))
        ELSE IF MapHas(rs.scopes[n], token)
             THEN IF rs.scopes[n][token] = "Declared"
                  THEN RR([rs EXCEPT !.scopes[n][token] = "Defined"], Ok(Unit))
                  ELSE RR(rs, Ok(Unit))
             ELSE RR([rs EXCEPT !.scopes[n] = MapInsert(@, token, "Defined")], Ok(Unit))

\* VarState::set_has_been_read
set_has_been_read(state) == "Read"

\* rposition(|scope| scope.get(&token.lexeme).is_some()), 1-based; 0 for None
found_index(rs, token) ==
    LET hits == {i \in 1..Len(rs.scopes) : MapHas(rs.scopes[i], token)}
    IN  IF hits = {} THEN 0 ELSE CHOOSE i \in hits : \A j \in hits : j <= i

resolve_local_depth_from_bottom(rs, token, expr_id, mark_as_read) ==
    \* mutant: the depth is counted from the outermost scope
    LET found == found_index(rs, token)
    IN  IF found = 0 THEN rs
        ELSE [rs EXCEPT !.expr_id_scope_depth = MapInsert(@, expr_id, found - 1),
                        !.scopes[found][token] =
                            IF mark_as_read THEN set_has_been_read(@) ELSE @,
                        !.gstacks = MapInsert(@, expr_id,
                            [stack |-> rs.gtags, found |-> found])]

\* resolve_local(&mut self, token, expr_id, mark_as_read)
resolve_local(rs, token, expr_id, mark_as_read) ==
    LET scope_size == Len(rs.scopes)
        found == found_index(rs, token)
        rs1 == IF mark_as_read /\ found # 0
               THEN [rs EXCEPT !.scopes[found][token] = set_has_been_read(@)]
               ELSE rs
    IN  IF found # 0
        THEN [rs1 EXCEPT !.expr_id_scope_depth =
                             MapInsert(@, expr_id, scope_size - found),
                         !.gstacks = MapInsert(@, expr_id,
                             [stack |-> rs.gtags, found |-> found])]
        ELSE rs1

\* Stmt::accept / Expr::accept with the Resolver as visitor, and the loops
\* of the iterator chains (`map(..).collect::<Result<()>>()` stops at the
\* first Err)
RECURSIVE resolve_expr(_, _), resolve_stmt(_, _), resolve_stmts(_, _),
          resolve_exprs(_, _), resolve_params(_, _), resolve_methods(_, _)

resolve_stmts_resolves_all(rs, stmts) ==
    \* mutant: the statements after a failed one are resolved as well
    IF stmts = << >> THEN RR(rs, Ok(Unit))
    ELSE LET rest(a) ==
                 IF ~IsOk(a.r) THEN RR(resolve_stmts(a.rs, Tail(stmts)).rs, a.r)
                 ELSE resolve_stmts(a.rs, Tail(stmts))
         IN  rest(resolve_stmt(rs, Head(stmts)))

\* resolve_stmts(&mut self, stmts) -> Result<()>
resolve_stmts(rs, stmts) ==
    IF stmts = << >> THEN RR(rs, Ok(Unit))
    ELSE LET rest(a) == IF ~IsOk(a.r) THEN a ELSE resolve_stmts(a.rs, Tail(stmts))
         IN  rest(resolve_stmt(rs, Head(stmts)))

\* args.into_iter().map(|arg| self.resolve_expr(arg)).collect()
resolve_exprs(rs, exprs) ==
    IF exprs = << >> THEN RR(rs, Ok(Unit))
    ELSE LET rest(a) == IF ~IsOk(a.r) THEN a ELSE resolve_exprs(a.rs, Tail(exprs))
         IN  rest(resolve_expr(rs, Head(exprs)))

\* params.map(|param| self.declare(param).and(self.define(param))).collect()
resolve_params(rs, params) ==
    IF params = << >> THEN RR(rs, Ok(Unit))
    ELSE LET and_define(d) ==
                 LET rest(f) == IF ~IsOk(Result_and(d.r, f.r))
                                THEN RR(f.rs, Result_and(d.r, f.r))
                                ELSE resolve_params(f.rs, Tail(params))
                 IN  rest(define(d.rs, Head(params)))
         IN  and_define(declare(rs, Head(params)))

resolve_function_keeps_kind(rs, params, body, kind) ==
    \* mutant: current_function is not restored when the body is done
    LET after_body(b) ==
            IF ~IsOk(b.r) THEN b ELSE RR(end_scope(b.rs), Ok(Unit))
        after_params(a) ==
            IF ~IsOk(a.r) THEN a ELSE after_body(resolve_stmts(a.rs, body))
    IN  after_params(resolve_params(
            begin_scope([rs EXCEPT !.current_function = kind],
                        TagFunction(params, body)), params))

\* resolve_function(&mut self, params, body, kind) -> Result<()>
resolve_function(rs, params, body, kind) ==
    LET after_body(b) ==
            IF ~IsOk(b.r) THEN b
            ELSE RR([end_scope(b.rs) EXCEPT
                         !.current_function = rs.current_function], Ok(Unit))
        after_params(a) ==
            IF ~IsOk(a.r) THEN a ELSE after_body(resolve_stmts(a.rs, body))
    IN  after_params(resolve_params(
            begin_scope([rs EXCEPT !.current_function = kind],
                        TagFunction(params, body)), params))

\* ---- impl stmt::Visitor<Result<()>> for Resolver

Resolver_visit_block_stmt(rs, stmts) ==
    LET after_body(a) == IF ~IsOk(a.r) THEN a ELSE RR(end_scope(a.rs), Ok(Unit))
    IN  after_body(resolve_stmts(begin_scope(rs, TagBlock(stmts)), stmts))

Resolver_visit_expression_stmt(rs, expr) == resolve_expr(rs, expr)

Resolver_visit_print_stmt(rs, expr) == resolve_expr(rs, expr)

Resolver_visit_var_stmt(rs, token, expr) ==
    LET after_initializer(a) == IF ~IsOk(a.r) THEN a ELSE define(a.rs, token)
        after_declare(d) ==
            IF ~IsOk(d.r) THEN d
            ELSE IF expr.t = "Some"
            THEN after_initializer(resolve_expr(d.rs, expr.x))
            ELSE define(d.rs, token)
    IN  after_declare(declare(rs, token))

Resolver_visit_if_stmt(rs, cond, then_branch, else_branch) ==
    LET after_then(b) ==
            IF ~IsOk(b.r) THEN b
            ELSE IF else_branch.t = "Some" THEN resolve_stmt(b.rs, else_branch.x)
            ELSE RR(b.rs, Ok(Unit))
        after_cond(a) ==
            IF ~IsOk(a.r) THEN a ELSE after_then(resolve_stmt(a.rs, then_branch))
    IN  after_cond(resolve_expr(rs, cond))

Resolver_visit_while_stmt(rs, cond, block) ==
    LET after_cond(a) == IF ~IsOk(a.r) THEN a ELSE resolve_stmt(a.rs, block)
    IN  after_cond(resolve_expr(rs, cond))

Resolver_visit_function_stmt(rs, token, params, body) ==
    LET after_declare(d) ==
            IF ~IsOk(d.r) THEN d
            ELSE resolve_function(define(d.rs, token).rs, params, body, "Function")
    IN  after_declare(declare(rs, token))

Resolver_visit_return_stmt(rs, token, expr) ==
    LET logged(rejected) ==
            [rs EXCEPT !.glog = Append(@, [op |-> "return", rejected |-> rejected,
                                          stack |-> rs.gtags, sdepth |-> rs.gstmt])]
    IN  IF rs.current_function = "None"
        THEN RR(logged(TRUE), Err(ResolverError(token, "Can't return on top-level code")))
        ELSE resolve_expr(logged(FALSE), expr)

\* the closure of visit_class_stmt, over the methods in order
resolve_methods(rs, methods) ==
    IF methods = << >> THEN RR(rs, Ok(Unit))
    ELSE LET rest(a) ==
                 IF ~IsOk(a.r) THEN RR(end_scope(a.rs), a.r)
                 ELSE resolve_methods(end_scope(a.rs), Tail(methods))
             with_this(rs1) ==
                 [rs1 EXCEPT !.scopes[Len(rs1.scopes)] = MapInsert(@, "this", "Defined")]
         IN  rest(resolve_function(with_this(begin_scope(rs, TagThis)),
                                   Head(methods).params, Head(methods).body, "Method"))

\* declare(token).and(define(token)).and(methods...collect()): the three
\* operands are evaluated in this order whatever the first two return
Resolver_visit_class_stmt(rs, token, methods) ==
    LET and_methods(d, f) ==
            LET result(m) == RR(m.rs, Result_and(Result_and(d.r, f.r), m.r))
            IN  result(resolve_methods(f.rs, methods))
        and_define(d) == and_methods(d, define(d.rs, token))
    IN  and_define(declare(rs, token))

\* ---- impl expr::Visitor<Result<()>> for Resolver

Resolver_visit_binary_expr(rs, left, right) ==
    LET after_left(a) == IF ~IsOk(a.r) THEN a ELSE resolve_expr(a.rs, right)
    IN  after_left(resolve_expr(rs, left))

Resolver_visit_grouping_expr(rs, expr) == resolve_expr(rs, expr)

Resolver_visit_unary_expr(rs, expr) == resolve_expr(rs, expr)

Resolver_visit_call_expr(rs, callee, args) ==
    LET after_callee(a) == IF ~IsOk(a.r) THEN a ELSE resolve_exprs(a.rs, args)
    IN  after_callee(resolve_expr(rs, callee))

Resolver_visit_conditional_expr(rs, cond, then_branch, else_branch) ==
    LET after_then(b) == IF ~IsOk(b.r) THEN b ELSE resolve_expr(b.rs, else_branch)
        after_cond(a) ==
            IF ~IsOk(a.r) THEN a ELSE after_then(resolve_expr(a.rs, then_branch))
    IN  after_cond(resolve_expr(rs, cond))

Resolver_visit_literal_expr(rs) == RR(rs, Ok(Unit))

\* history: what visit_variable_expr found in the innermost scope
ReadEvent(rs, token, id) ==
    LET n == Len(rs.scopes)
        inner == IF n = 0 THEN EmptyMap ELSE rs.scopes[n]
    IN  [op |-> "read", token |-> token, id |-> id,
         state |-> IF MapHas(inner, token) THEN inner[token] ELSE "Absent",
         declared |-> {x \in DOMAIN inner : inner[x] = "Declared"},
         outer |-> OuterNames(rs), sdepth |-> rs.gstmt]

Resolver_visit_variable_expr_unchecked(rs, token, id) ==
    \* mutant: the state of the name is not looked at
    RR(resolve_local([rs EXCEPT !.glog = Append(@, ReadEvent(rs, token, id))],
                     token, id, TRUE), Ok(Unit))

Resolver_visit_variable_expr(rs, token, id) ==
    LET n == Len(rs.scopes)
        var_state == IF n # 0 /\ MapHas(rs.scopes[n], token)
                     THEN Some(rs.scopes[n][token]) ELSE None
        rs1 == [rs EXCEPT !.glog = Append(@, ReadEvent(rs, token, id))]
    IN  IF var_state.t = "Some" /\ var_state.x = "Declared"
        THEN RR(rs1, Err(ResolverError(token,
                 "Can't read local variable in its own initializer.")))
        ELSE RR(resolve_local(rs1, token, id, TRUE), Ok(Unit))

Resolver_visit_assign_expr_marks_read(rs, token, expr, id) ==
    \* mutant: an assignment marks the name as read
    LET logged(rs1) ==
            [rs1 EXCEPT !.glog = Append(@, [op |-> "assign", token |-> token, id |-> id])]
        after_value(a) ==
            IF ~IsOk(a.r) THEN a
            ELSE RR(resolve_local(logged(a.rs), token, id, TRUE), Ok(Unit))
    IN  after_value(resolve_expr(rs, expr))

Resolver_visit_assign_expr(rs, token, expr, id) ==
    LET logged(rs1) ==
            [rs1 EXCEPT !.glog = Append(@, [op |-> "assign", token |-> token, id |-> id])]
        after_value(a) ==
            IF ~IsOk(a.r) THEN a
            ELSE RR(resolve_local(logged(a.rs), token, id, FALSE), Ok(Unit))
    IN  after_value(resolve_expr(rs, expr))

Resolver_visit_logic_or(rs, left, right) ==
    LET after_left(a) == IF ~IsOk(a.r) THEN a ELSE resolve_expr(a.rs, right)
    IN  after_left(resolve_expr(rs, left))

Resolver_visit_logic_and(rs, left, right) ==
    LET after_left(a) == IF ~IsOk(a.r) THEN a ELSE resolve_expr(a.rs, right)
    IN  after_left(resolve_expr(rs, left))

Resolver_visit_get_expr(rs, object) == resolve_expr(rs, object)

\* resolve_expr(object).and(resolve_expr(value)): both are resolved
Resolver_visit_set_expr(rs, object, value) ==
    LET and_value(o) ==
            LET result(v) == RR(v.rs, Result_and(o.r, v.r))
            IN  result(resolve_expr(o.rs, value))
    IN  and_value(resolve_expr(rs, object))

Resolver_visit_this_expr_unchecked(rs, token, id) ==
    \* mutant: current_function is not looked at
    RR(resolve_local([rs EXCEPT !.glog = Append(@, [op |-> "this", id |-> id,
                                          rejected |-> FALSE,
                                          stack |-> rs.gtags, sdepth |-> rs.gstmt])],
                     token, id, FALSE), Ok(Unit))

Resolver_visit_this_expr(rs, token, id) ==
    LET logged(rejected) ==
            [rs EXCEPT !.glog = Append(@, [op |-> "this", id |-> id,
                                          rejected |-> rejected,
                                          stack |-> rs.gtags, sdepth |-> rs.gstmt])]
    IN  IF rs.current_function # "Method"
        THEN RR(logged(TRUE),
                Err(ResolverError(token, "Can't use 'this' outside of class methods")))
        ELSE RR(resolve_local(logged(FALSE), token, id, FALSE), Ok(Unit))

resolve_expr(rs, expr) ==
    CASE expr.e = "Binary" -> Resolver_visit_binary_expr(rs, expr.left, expr.right)
      [] expr.e = "Grouping" -> Resolver_visit_grouping_expr(rs, expr.expr)
      [] expr.e = "Unary" -> Resolver_visit_unary_expr(rs, expr.right)
      [] expr.e = "Call" -> Resolver_visit_call_expr(rs, expr.callee, expr.args)
      [] expr.e = "Conditional" ->
            Resolver_visit_conditional_expr(rs, expr.cond, expr.then_branch,
                                            expr.else_branch)
      [] expr.e \in {"Number", "String", "Boolean", "Nil"} ->
            Resolver_visit_literal_expr(rs)
      [] expr.e = "Variable" -> Resolver_visit_variable_expr(rs, expr.token, expr.id)
      [] expr.e = "Assign" ->
            Resolver_visit_assign_expr(rs, expr.token, expr.value, expr.id)
      [] expr.e = "LogicOr" -> Resolver_visit_logic_or(rs, expr.left, expr.right)
      [] expr.e = "LogicAnd" -> Resolver_visit_logic_and(rs, expr.left, expr.right)
      [] expr.e = "Get" -> Resolver_visit_get_expr(rs, expr.object)
      [] expr.e = "Set" -> Resolver_visit_set_expr(rs, expr.object, expr.value)
      [] expr.e = "This" -> Resolver_visit_this_expr(rs, expr.token, expr.id)

\* history: every statement the resolver starts is recorded with the number
\* of scopes around it
resolve_stmt(rs, stmt) ==
    LET leave(a) == RR([a.rs EXCEPT !.gstmt = rs.gstmt], a.r)
        accept(rs1) ==
          CASE stmt.s = "Block" -> Resolver_visit_block_stmt(rs1, stmt.statements)
            [] stmt.s = "Expression" -> Resolver_visit_expression_stmt(rs1, stmt.expr)
            [] stmt.s = "Print" -> Resolver_visit_print_stmt(rs1, stmt.expr)
            [] stmt.s = "Var" -> Resolver_visit_var_stmt(rs1, stmt.token, stmt.expr)
            [] stmt.s = "If" ->
                  Resolver_visit_if_stmt(rs1, stmt.cond, stmt.then_branch,
                                         stmt.else_branch)
            [] stmt.s = "While" -> Resolver_visit_while_stmt(rs1, stmt.cond, stmt.block)
            [] stmt.s = "Function" ->
                  Resolver_visit_function_stmt(rs1, stmt.token, stmt.params, stmt.body)
            [] stmt.s = "Return" -> Resolver_visit_return_stmt(rs1, stmt.token, stmt.expr)
            [] stmt.s = "Class" ->
                  Resolver_visit_class_stmt(rs1, stmt.token, stmt.methods)
    IN  leave(accept([rs EXCEPT !.gstmt = Len(rs.scopes),
                                !.glog = Append(@, [op |-> "stmt", s |-> stmt.s,
                                                    depth |-> Len(rs.scopes)])]))

\* The first VarState that is not Read in
\* scopes.iter().flat_map(|map| map.values()): the scopes in order, the
\* names of one scope in the HashMap's iteration order, which is any order.
FirstUnused(rs) ==
    LET unread(i) == {x \in DOMAIN rs.scopes[i] : rs.scopes[i][x] # "Read"}
        hits == {i \in 1..Len(rs.scopes) : unread(i) # {}}
    IN  IF hits = {} THEN {None}
        ELSE LET first == CHOOSE i \in hits : \A j \in hits : i <= j
             IN  {Some(x) : x \in unread(first)}

\* Resolver::run(mut self, statements) -> Result<HashMap<u64, u64>>;
\* first_unused is the element the iterator of FirstUnused yields
Resolver_run(stmts, first_unused) ==
    LET check_unused(a) ==
            IF ~IsOk(a.r) THEN a
            ELSE IF first_unused.t = "Some"
            THEN RR(a.rs, Err(ResolverError(first_unused.x,
                                            "Variable declared and not used")))
            ELSE RR(a.rs, Ok(a.rs.expr_id_scope_depth))
    IN  check_unused(resolve_stmts(Resolver_new, stmts))

-----------------------------------------------------------------------------
(* Interpreter (src/src/interpreter.rs).  The record holds the struct's    *)
(* three fields, the heap `envs` behind its Rc handles, what was printed,  *)
(* the heap `instances` behind the Rc<RefCell<LoxInstance>> handles,       *)
(* the reading of the system clock, and history: `trace`, the call depth   *)
(* `gdepth` and the remaining `fuel` of the model.                         *)

IR(in, r) == [in |-> in, r |-> r]
Log(in, ev) == [in EXCEPT !.trace = Append(@, ev)]

\* create_global_enviroment()
create_global_enviroment ==
    Environment_define(Environment_new, "clock", Some(ClockFunction))

\* Interpreter::new()
Interpreter_new(now) ==
    [envs |-> << create_global_enviroment,
                 Environment_new_with_enclosing(1, TagTop) >>,
     global_environment |-> 1,
     local_environment |-> 2,
     instances |-> << >>,
     expr_id_scope_depth |-> EmptyMap,
     stdout |-> << >>, now |-> now, trace |-> << >>, gdepth |-> 0, fuel |-> MaxFuel]

\* add_expr_ids_depth(&mut self, map)
add_expr_ids_depth(in, map) ==
    [in EXCEPT !.expr_id_scope_depth =
        [k \in (DOMAIN @) \cup (DOMAIN map) |-> IF k \in DOMAIN map THEN map[k] ELSE @[k]]]

\* Strings are compared (String's PartialOrd) on this ordered universe only.
StringOrder == << "", "a", "ab", "b", "global", "local" >>
str_rank(s) == CHOOSE i \in 1..Len(StringOrder) : StringOrder[i] = s
str_lt(a, b) == str_rank(a) < str_rank(b)

\* the `match (&token.kind, left, right)` of visit_binary_expr
binary_match(token, left, right) ==
    LET num == left.t = "Number" /\ right.t = "Number"
        str == left.t = "String" /\ right.t = "String"
    IN  CASE token = "==" -> Ok(Boolean(Object_eq(left, right)))
          [] token = "!=" -> Ok(Boolean(~Object_eq(left, right)))
          [] token = ">" /\ num -> Ok(Boolean(f64_lt(right, left)))
          [] token = ">=" /\ num -> Ok(Boolean(f64_le(right, left)))
          [] token = "<" /\ num -> Ok(Boolean(f64_lt(left, right)))
          [] token = "<=" /\ num -> Ok(Boolean(f64_le(left, right)))
          [] token = ">" /\ str -> Ok(Boolean(str_lt(right.s, left.s)))
          [] token = ">=" /\ str -> Ok(Boolean(~str_lt(left.s, right.s)))
          [] token = "<" /\ str -> Ok(Boolean(str_lt(left.s, right.s)))
          [] token = "<=" /\ str -> Ok(Boolean(~str_lt(right.s, left.s)))
          [] token \in {">", ">=", "<", "<="} /\ ~num /\ ~str ->
                Err(RuntimeError(token, "Expected operands to be numbers"))
          [] token = "+" /\ num -> Ok(f64_add(left, right))
          [] token = "+" /\ str -> Ok(String(left.s \o right.s))
          [] token = "+" /\ left.t = "Number" /\ right.t = "String" ->
                Ok(String(f64_to_string(left) \o right.s))
          [] token = "+" /\ left.t = "String" /\ right.t = "Number" ->
                Ok(String(left.s \o f64_to_string(right)))
          [] token = "-" /\ num -> Ok(f64_sub(left, right))
          [] token = "+" /\ ~num /\ ~str
                /\ ~(left.t = "Number" /\ right.t = "String")
                /\ ~(left.t = "String" /\ right.t = "Number") ->
                Err(RuntimeError(token, "Expected operands to be numbers or strings"))
          [] token = "-" /\ ~num ->
                Err(RuntimeError(token, "Expected operands to be numbers"))
          [] token = "*" /\ num ->
                IF f64_eq(right, Number(0))
                THEN Err(RuntimeError(token, "Cannot divide by zero"))
                ELSE Ok(f64_mul(left, right))
          [] token = "/" /\ num -> Ok(f64_div(left, right))
          [] token \in {"*", "/"} /\ ~num ->
                Err(RuntimeError(token, "Expected operands to be numbers"))
          [] OTHER -> Panic("unreachable")

\* the `match (&token.kind, eval)` of visit_unary_expr
unary_match(token, eval) ==
    CASE token = "!" -> Ok(Boolean(~is_truphy(eval)))
      [] token = "-" /\ eval.t = "Number" -> Ok(f64_neg(eval))
      [] token = "-" /\ eval.t # "Number" ->
            Err(RuntimeError(token, "Operand must be a number"))
      [] OTHER -> Panic("unreachable")

\* What dbg! walks: Debug is derived for Environment, UserFunction, LoxClass,
\* LoxInstance and Rc<RefCell<_>>, so the formatter follows `enclosing`, the
\* `closure` of every function and method, and every instance an
\* environment or an instance holds.  A node is <<"env", i>> or <<"inst", i>>.
\* On a cycle the formatter recurses until the stack overflows.
DebugObject(o) ==
    CASE o.t = "Call" /\ o.impl = "UserFunction" -> {<<"env", o.closure>>}
      [] o.t = "Call" /\ o.impl = "LoxClass" ->
            {<<"env", o.methods[m].closure>> : m \in DOMAIN o.methods}
      [] o.t = "ClassInstance" -> {<<"inst", o.ref>>}
      [] OTHER -> {}

DebugSucc(in, node) ==
    IF node[1] = "env"
    THEN (IF in.envs[node[2]].enclosing = 0 THEN {}
          ELSE {<<"env", in.envs[node[2]].enclosing>>})
         \cup UNION {DebugObject(in.envs[node[2]].variables[x].x) :
                        x \in {y \in DOMAIN in.envs[node[2]].variables :
                                 in.envs[node[2]].variables[y].t = "Some"}}
    ELSE DebugObject(in.instances[node[2]].class)
         \cup UNION {DebugObject(in.instances[node[2]].fields[x]) :
                        x \in DOMAIN in.instances[node[2]].fields}

RECURSIVE DebugReach(_, _, _)
DebugReach(in, frontier, seen) ==
    IF frontier \subseteq seen THEN seen
    ELSE DebugReach(in, UNION {DebugSucc(in, n) : n \in frontier},
                    seen \cup frontier)

debug_overflows(in, root) ==
    \E n \in DebugReach(in, {root}, {}) :
        n \in DebugReach(in, DebugSucc(in, n), {})

\* Expr::accept / Stmt::accept with the Interpreter as visitor, the loops
\* of its iterator chains, and Callable::call
RECURSIVE evaluate(_, _), execute(_, _), execute_stmts(_, _),
          evaluate_args(_, _, _), while_loop(_, _, _), Callable_call(_, _, _)

\* statements.into_iter().map(|stmt| self.execute(stmt)).collect()
execute_stmts(in, stmts) ==
    IF stmts = << >> THEN IR(in, Ok(Unit))
    ELSE LET rest(a) == IF ~IsOk(a.r) THEN a ELSE execute_stmts(a.in, Tail(stmts))
         IN  rest(execute(in, Head(stmts)))

\* args.into_iter().map(|arg| self.evaluate(arg)).collect()
evaluate_args(in, args, done) ==
    IF args = << >> THEN IR(in, Ok(done))
    ELSE LET rest(a) == IF ~IsOk(a.r) THEN a
                        ELSE evaluate_args(a.in, Tail(args), Append(done, a.r.v))
         IN  rest(evaluate(in, Head(args)))

execute_block_keeps_child_on_error(in, stmts, environment) ==
    \* mutant: the results are propagated with `?` before the swap back
    LET previous == in.local_environment
        new == Len(in.envs) + 1
        exit(in2, r) ==
            IR(Log(in2, [ev |-> "block_exit", env |-> new, before |-> previous,
                         after |-> in2.local_environment,
                         how |-> IF IsOk(r) THEN "Ok" ELSE r.e.kind,
                         gdepth |-> in.gdepth]), r)
        swap_back(results) ==
            IF IsAbort(results.r) THEN results
            ELSE IF IsOk(results.r)
            THEN exit([results.in EXCEPT !.local_environment = previous], results.r)
            ELSE exit(results.in, results.r)
    IN  swap_back(execute_stmts(
            Log([in EXCEPT !.envs = Append(@, environment),
                           !.local_environment = new],
                [ev |-> "block_enter", env |-> new, before |-> previous,
                 gdepth |-> in.gdepth]),
            stmts))

\* execute_block(&mut self, statements, enclosing_environment: Environment)
execute_block(in, stmts, environment) ==
    LET previous == in.local_environment
        new == Len(in.envs) + 1
        exit(in2, r) ==
            IR(Log(in2, [ev |-> "block_exit", env |-> new, before |-> previous,
                         after |-> in2.local_environment,
                         how |-> IF IsOk(r) THEN "Ok" ELSE r.e.kind,
                         gdepth |-> in.gdepth]), r)
        \* the second swap, after the results have been collected
        swap_back(results) ==
            IF IsAbort(results.r) THEN results
            ELSE exit([results.in EXCEPT !.local_environment = previous], results.r)
    \* Rc::new(RefCell::new(enclosing_environment)) and the first swap
    IN  swap_back(execute_stmts(
            Log([in EXCEPT !.envs = Append(@, environment),
                           !.local_environment = new],
                [ev |-> "block_enter", env |-> new, before |-> previous,
                 gdepth |-> in.gdepth]),
            stmts))

\* ---- impl expr::Visitor<Result<Object>> for Interpreter

Interpreter_visit_binary_expr(in, left, token, right) ==
    LET apply(l, r) ==
            IF ~IsOk(r.r) THEN r
            ELSE IR(Log(r.in, [ev |-> "binary", token |-> token, left |-> l.r.v,
                               right |-> r.r.v,
                               r |-> binary_match(token, l.r.v, r.r.v)]),
                    binary_match(token, l.r.v, r.r.v))
        after_left(l) == IF ~IsOk(l.r) THEN l ELSE apply(l, evaluate(l.in, right))
    IN  after_left(evaluate(in, left))

Interpreter_visit_grouping_expr(in, expr) == evaluate(in, expr)

Interpreter_visit_unary_expr(in, token, expr) ==
    LET apply(eval) ==
            IF ~IsOk(eval.r) THEN eval ELSE IR(eval.in, unary_match(token, eval.r.v))
    IN  apply(evaluate(in, expr))

Interpreter_visit_conditional_expr(in, cond, then_branch, else_branch) ==
    LET branch(c) ==
            IF ~IsOk(c.r) THEN c
            ELSE IF is_truphy(c.r.v) THEN evaluate(c.in, then_branch)
            ELSE evaluate(c.in, else_branch)
    IN  branch(evaluate(in, cond))

Interpreter_visit_literal_expr_number(in, value) == IR(in, Ok(Number(value)))
Interpreter_visit_literal_expr_string(in, value) == IR(in, Ok(String(value)))
Interpreter_visit_literal_expr_boolean(in, value) == IR(in, Ok(Boolean(value)))
Interpreter_visit_literal_expr_nil(in) == IR(in, Ok(Nil))

Interpreter_visit_variable_expr(in, token, id) ==
    LET logged(distance, r) ==
            IR(Log(in, [ev |-> "get_at", id |-> id, token |-> token,
                        distance |-> distance,
                        reached |-> EnvAt(in.envs, in.local_environment, distance),
                        chain |-> ChainTags(in.envs, in.local_environment),
                        variables |-> VariablesAt(in.envs,
                            EnvAt(in.envs, in.local_environment, distance)),
                        r |-> r]), r)
        at(distance) ==
            logged(distance,
                   Environment_get_at(in.envs, in.local_environment, token, distance))
        logged_global(r) ==
            IR(Log(in, [ev |-> "get_global", id |-> id, token |-> token,
                        reached |-> in.global_environment,
                        variables |-> VariablesAt(in.envs, in.global_environment),
                        r |-> r]), r)
    IN  IF MapHas(in.expr_id_scope_depth, id)
        THEN at(in.expr_id_scope_depth[id])
        ELSE logged_global(Environment_get(in.envs[in.global_environment], token))

Interpreter_visit_assign_expr(in, token, expr, id) ==
    LET value_of(a, value) == IF ~IsOk(a.r) THEN a.r ELSE Ok(value)
        assigned_at(in1, value, distance, a) ==
            IR(Log([in1 EXCEPT !.envs = a.envs],
                   [ev |-> "assign_at", id |-> id, token |-> token,
                    distance |-> distance,
                    reached |-> EnvAt(in1.envs, in1.local_environment, distance),
                    chain |-> ChainTags(in1.envs, in1.local_environment),
                    before |-> in1.envs, after |-> a.envs,
                    value |-> value, r |-> a.r]),
               value_of(a, value))
        assigned_global(in1, value, a) ==
            IR(Log([in1 EXCEPT !.envs[in1.global_environment] = a.env],
                   [ev |-> "assign_global", id |-> id, token |-> token,
                    reached |-> in1.global_environment,
                    before |-> in1.envs,
                    after |-> [in1.envs EXCEPT ![in1.global_environment] = a.env],
                    value |-> value, r |-> a.r]),
               value_of(a, value))
        assign(object) ==
            IF ~IsOk(object.r) THEN object
            ELSE IF MapHas(object.in.expr_id_scope_depth, id)
            THEN assigned_at(object.in, object.r.v, object.in.expr_id_scope_depth[id],
                     Environment_assign_at(object.in.envs, object.in.local_environment,
                         token, object.r.v, object.in.expr_id_scope_depth[id]))
            ELSE assigned_global(object.in, object.r.v,
                     Environment_assign(object.in.envs[object.in.global_environment],
                                        token, object.r.v))
    IN  assign(evaluate(in, expr))

Interpreter_visit_logic_or(in, left, right) ==
    LET after_left(l) ==
            IF ~IsOk(l.r) THEN l
            ELSE IF is_truphy(l.r.v) THEN l ELSE evaluate(l.in, right)
    IN  after_left(evaluate(in, left))

Interpreter_visit_logic_and(in, left, right) ==
    LET after_left(l) ==
            IF ~IsOk(l.r) THEN l
            ELSE IF ~is_truphy(l.r.v) THEN l ELSE evaluate(l.in, right)
    IN  after_left(evaluate(in, left))

\* LoxClass::find_method
find_method(class, name) ==
    IF MapHas(class.methods, name) THEN Some(class.methods[name]) ELSE None

\* Callable::arity of the three implementations
Callable_arity(callable) ==
    CASE callable.impl = "ClockFunction" -> 0
      [] callable.impl = "UserFunction" -> Len(callable.params)
      [] callable.impl = "LoxClass" ->
            IF find_method(callable, "init").t = "Some"
            THEN Len(find_method(callable, "init").x.params) ELSE 0

Interpreter_visit_call_expr_unchecked_arity(in, callee, token, args) ==
    \* mutant: the number of arguments is not compared with the arity
    LET checked(c, arguments, branch, r) ==
            Log(arguments.in, [ev |-> "call_check", callee |-> c.r.v,
                               arguments |-> arguments.r.v, branch |-> branch, r |-> r])
        call(c, arguments) ==
            IF ~IsOk(arguments.r) THEN arguments
            ELSE IF c.r.v.t # "Call"
            THEN IR(checked(c, arguments, "not_callable", Err(RuntimeError(token,
                        "Can only calll on functions or classes"))),
                    Err(RuntimeError(token, "Can only calll on functions or classes")))
            ELSE Callable_call(c.r.v, arguments.r.v,
                               checked(c, arguments, "invoke", None))
        after_callee(c) ==
            IF ~IsOk(c.r) THEN c ELSE call(c, evaluate_args(c.in, args, << >>))
    IN  after_callee(evaluate(in, callee))

\* history: the outcome of the two checks is recorded before the callable
\* is invoked
Interpreter_visit_call_expr(in, callee, token, args) ==
    LET checked(c, arguments, branch, r) ==
            Log(arguments.in, [ev |-> "call_check", callee |-> c.r.v,
                               arguments |-> arguments.r.v, branch |-> branch, r |-> r])
        call(c, arguments) ==
            IF ~IsOk(arguments.r) THEN arguments
            ELSE IF c.r.v.t # "Call"
            THEN IR(checked(c, arguments, "not_callable", Err(RuntimeError(token,
                        "Can only calll on functions or classes"))),
                    Err(RuntimeError(token, "Can only calll on functions or classes")))
            ELSE IF Callable_arity(c.r.v) # Len(arguments.r.v)
            THEN IR(checked(c, arguments, "arity", Err(RuntimeError(token,
                        "Expect n arguments but found m"))),
                    Err(RuntimeError(token, "Expect n arguments but found m")))
            ELSE Callable_call(c.r.v, arguments.r.v,
                               checked(c, arguments, "invoke", None))
        after_callee(c) ==
            IF ~IsOk(c.r) THEN c ELSE call(c, evaluate_args(c.in, args, << >>))
    IN  after_callee(evaluate(in, callee))

\* ---- impl stmt::Visitor<Result<()>> for Interpreter

Interpreter_visit_block_stmt(in, stmts) ==
    execute_block(in, stmts,
                  Environment_new_with_enclosing(in.local_environment, TagBlock(stmts)))

Interpreter_visit_expression_stmt(in, expr) ==
    LET discard(a) == IF ~IsOk(a.r) THEN a ELSE IR(a.in, Ok(Unit))
    IN  discard(evaluate(in, expr))

\* Display for Object
Object_to_string(instances, o) ==
    CASE o.t = "Boolean" -> IF o.b THEN "true" ELSE "false"
      [] o.t = "String" -> o.s
      [] o.t = "Number" -> f64_to_string(o)
      [] o.t = "Call" -> "function"
      [] o.t = "ClassInstance" -> instances[o.ref].class.name \o " instance"
      [] o.t = "Nil" -> "nil"

Interpreter_visit_print_stmt(in, expr) ==
    LET output(value) ==
            IF ~IsOk(value.r) THEN value
            ELSE IF debug_overflows(value.in, <<"env", value.in.local_environment>>)
            THEN IR(value.in, Panic("stack overflow in dbg!(&self.local_environment)"))
            ELSE IR([value.in EXCEPT !.stdout =
                        Append(@, Object_to_string(value.in.instances, value.r.v))],
                    Ok(Unit))
    IN  output(evaluate(in, expr))

Interpreter_visit_var_stmt_defines_outermost(in, token, expr) ==
    \* mutant: the name is defined in the top-level environment
    LET defined(in1, v, envs_after) ==
            IR(Log([in1 EXCEPT !.envs = envs_after],
                   [ev |-> "var", env |-> in1.local_environment,
                    token |-> token, value |-> v,
                    envs_before |-> in1.envs, envs_after |-> envs_after,
                    gdepth |-> in1.gdepth]),
               Ok(Unit))
        define_in(in1, v) ==
            defined(in1, v, [in1.envs EXCEPT ![2] = Environment_define(@, token, v)])
        after_initializer(value) ==
            IF ~IsOk(value.r) THEN value ELSE define_in(value.in, Some(value.r.v))
    IN  IF expr.t = "Some" THEN after_initializer(evaluate(in, expr.x))
        ELSE define_in(in, None)

Interpreter_visit_var_stmt(in, token, expr) ==
    LET defined(in1, v, envs_after) ==
            IR(Log([in1 EXCEPT !.envs = envs_after],
                   [ev |-> "var", env |-> in1.local_environment,
                    token |-> token, value |-> v,
                    envs_before |-> in1.envs, envs_after |-> envs_after,
                    gdepth |-> in1.gdepth]),
               Ok(Unit))
        define_in(in1, v) ==
            defined(in1, v, [in1.envs EXCEPT ![in1.local_environment] =
                                 Environment_define(@, token, v)])
        after_initializer(value) ==
            IF ~IsOk(value.r) THEN value ELSE define_in(value.in, Some(value.r.v))
    IN  IF expr.t = "Some" THEN after_initializer(evaluate(in, expr.x))
        ELSE define_in(in, None)

Interpreter_visit_if_stmt(in, cond, then_branch, else_branch) ==
    LET branch(c) ==
            IF ~IsOk(c.r) THEN c
            ELSE IF is_truphy(c.r.v) THEN execute(c.in, then_branch)
            ELSE IF else_branch.t = "Some" THEN execute(c.in, else_branch.x)
            ELSE IR(c.in, Ok(Unit))
    IN  branch(evaluate(in, cond))

\* while self.evaluate(cond)?.is_truphy() { self.execute(block)?; }
while_loop(in, cond, block) ==
    LET again(b) == IF ~IsOk(b.r) THEN b ELSE while_loop(b.in, cond, block)
        body(c) ==
            IF ~IsOk(c.r) THEN c
            ELSE IF ~is_truphy(c.r.v) THEN IR(c.in, Ok(Unit))
            ELSE IF c.in.fuel = 0 THEN IR(c.in, OutOfFuel)
            ELSE again(execute([c.in EXCEPT !.fuel = @ - 1], block))
    IN  body(evaluate(in, cond))

Interpreter_visit_while_stmt(in, cond, block) == while_loop(in, cond, block)

Interpreter_visit_function_stmt_captures_global(in, name, params, body) ==
    \* mutant: the function closes over the global environment
    LET defined(f) ==
            IR(Log([in EXCEPT !.envs[in.local_environment] =
                                  Environment_define(@, name, Some(f))],
                   [ev |-> "function", token |-> name, env |-> in.local_environment,
                    closure |-> f.closure, value |-> Some(f), gdepth |-> in.gdepth]),
               Ok(Unit))
    IN  defined(UserFunction(params, body, in.global_environment))

Interpreter_visit_function_stmt(in, name, params, body) ==
    LET defined(f) ==
            IR(Log([in EXCEPT !.envs[in.local_environment] =
                                  Environment_define(@, name, Some(f))],
                   [ev |-> "function", token |-> name, env |-> in.local_environment,
                    closure |-> f.closure, value |-> Some(f), gdepth |-> in.gdepth]),
               Ok(Unit))
    IN  defined(UserFunction(params, body, in.local_environment))

Interpreter_visit_return_stmt_falls_through(in, token, expr) ==
    \* mutant: the value is evaluated and the body goes on
    LET unwind(value) ==
            IF ~IsOk(value.r) THEN value
            ELSE IR(Log(value.in, [ev |-> "return", value |-> value.r.v,
                                   gdepth |-> value.in.gdepth]),
                    Ok(Unit))
    IN  unwind(evaluate(in, expr))

Interpreter_visit_return_stmt(in, token, expr) ==
    LET unwind(value) ==
            IF ~IsOk(value.r) THEN value
            ELSE IR(Log(value.in, [ev |-> "return", value |-> value.r.v,
                                   gdepth |-> value.in.gdepth]),
                    Err(Return(value.r.v)))
    IN  unwind(evaluate(in, expr))

\* visit_class_stmt: the class object is built with no methods (`vec![]`)
Interpreter_visit_class_stmt(in, token, methods) ==
    LET local == in.local_environment
        class == [LoxClass(token, EmptyMap) EXCEPT !.gdecl = methods]
        assigned(a) ==
            IR(Log([in EXCEPT !.envs[local] = a.env],
                   [ev |-> "class", token |-> token, env |-> local,
                    value |-> IF IsOk(a.r) THEN Some(class) ELSE None,
                    gdepth |-> in.gdepth]),
               a.r)
    IN  assigned(Environment_assign(Environment_define(in.envs[local], token, None),
                                    token, class))

\* ---- impl Callable for ClockFunction / UserFunction

ClockFunction_call(arguments, in) == IR(in, Ok(Number(in.now)))

\* self.params.iter().zip(arguments).for_each(|(param, argument)| define)
RECURSIVE define_params(_, _, _)
define_params(environment, params, arguments) ==
    IF params = << >> \/ arguments = << >> THEN environment
    ELSE define_params(Environment_define(environment, Head(params),
                                          Some(Head(arguments))),
                       Tail(params), Tail(arguments))

UserFunction_call(f, arguments, in) ==
    LET environment ==
            define_params(Environment_new_with_enclosing(f.closure,
                              TagFunction(f.params, f.body)),
                          f.params, arguments)
        \* match result { Err(Error::Return(value)) => Ok(value),
        \*                Ok(_) => Ok(Object::Nil), err => err }
        value_of(r) == IF IsOk(r) THEN Ok(Nil)
                       ELSE IF IsErr(r) /\ r.e.kind = "Return" THEN Ok(r.e.value)
                       ELSE r
        returned(result) ==
            IF IsAbort(result.r) THEN result
            ELSE IR(Log([result.in EXCEPT !.gdepth = @ - 1],
                        [ev |-> "call_return", r |-> value_of(result.r),
                         how |-> IF IsOk(result.r) THEN "Ok" ELSE result.r.e.kind,
                         caller |-> in.local_environment,
                         after |-> result.in.local_environment,
                         gdepth |-> in.gdepth + 1]),
                    value_of(result.r))
    IN  IF in.fuel = 0 THEN IR(in, OutOfFuel)
        ELSE returned(execute_block(
                 Log([in EXCEPT !.gdepth = @ + 1, !.fuel = @ - 1],
                     [ev |-> "call", function |-> f, closure |-> f.closure,
                      env |-> Len(in.envs) + 1,
                      parent |-> environment.enclosing,
                      variables |-> environment.variables,
                      caller |-> in.local_environment, gdepth |-> in.gdepth + 1]),
                 f.body, environment))

\* ---- LoxClass (src/src/lox_class.rs), LoxInstance (src/src/lox_instance.rs)

\* UserFunction::bind(instance): the method closed over a new environment
\* that encloses its closure and defines `this`
UserFunction_bind(f, instance, in) ==
    [in |-> [in EXCEPT !.envs = Append(@,
                 Environment_define(Environment_new_with_enclosing(f.closure, TagThis),
                                    "this", Some(ClassInstance(instance))))],
     f |-> UserFunction(f.params, f.body, Len(in.envs) + 1)]

\* LoxInstance::new(class)
LoxInstance_new(class) == [class |-> class, fields |-> EmptyMap]

\* LoxClass::call: the value of `find_method("init").map(..)` is dropped
LoxClass_call(class, arguments, in) ==
    LET instance == Len(in.instances) + 1
        made == Log([in EXCEPT !.instances = Append(@, LoxInstance_new(class))],
                    [ev |-> "class_call", class |-> class, instance |-> instance,
                     arguments |-> arguments,
                     fields |-> LoxInstance_new(class).fields])
        done(in1, init) ==
            IR(Log(in1, [ev |-> "class_return", instance |-> instance, init |-> init,
                         r |-> Ok(ClassInstance(instance))]),
               Ok(ClassInstance(instance)))
        discard(result) ==
            IF IsAbort(result.r) THEN result ELSE done(result.in, Some(result.r))
        run(bound) == discard(UserFunction_call(bound.f, arguments, bound.in))
    IN  IF find_method(class, "init").t = "Some"
        THEN run(UserFunction_bind(find_method(class, "init").x, instance, made))
        ELSE done(made, None)

\* LoxInstance::get(instance, token)
LoxInstance_get(in, instance, token) ==
    LET self == in.instances[instance]
        logged(in1, r) ==
            IR(Log(in1, [ev |-> "get", instance |-> instance, token |-> token,
                         fields |-> self.fields, class |-> self.class, r |-> r]), r)
        bound(b) == logged(b.in, Ok(b.f))
    IN  IF MapHas(self.fields, token) THEN logged(in, Ok(self.fields[token]))
        ELSE IF find_method(self.class, token).t = "Some"
        THEN bound(UserFunction_bind(find_method(self.class, token).x, instance, in))
        ELSE logged(in, Err(RuntimeError(token, "Undefined property")))

\* LoxInstance::set(&mut self, token, value)
LoxInstance_set(self, token, value) ==
    [self EXCEPT !.fields = MapInsert(@, token, value)]

Interpreter_visit_get_expr(in, object, property) ==
    LET get(o) ==
            IF ~IsOk(o.r) THEN o
            ELSE IF o.r.v.t = "ClassInstance"
            THEN LoxInstance_get(o.in, o.r.v.ref, property)
            ELSE IR(Log(o.in, [ev |-> "get_error", object |-> o.r.v, token |-> property]),
                    Err(RuntimeError(property, "Only instances have properties")))
    IN  get(evaluate(in, object))

Interpreter_visit_set_expr(in, object, property, value) ==
    LET store(instance, v) ==
            IF ~IsOk(v.r) THEN v
            ELSE IR(Log([v.in EXCEPT !.instances[instance] =
                                        LoxInstance_set(@, property, v.r.v)],
                        [ev |-> "set", instance |-> instance, token |-> property,
                         value |-> v.r.v,
                         before |-> v.in.instances[instance],
                         after |-> LoxInstance_set(v.in.instances[instance],
                                                   property, v.r.v)]),
                    Ok(v.r.v))
        set(o) ==
            IF ~IsOk(o.r) THEN o
            ELSE IF o.r.v.t # "ClassInstance"
            THEN IR(Log(o.in, [ev |-> "set_error", object |-> o.r.v, token |-> property]),
                    Err(RuntimeError(property, "Only instances have fields")))
            ELSE IF debug_overflows(o.in, <<"inst", o.r.v.ref>>)
            THEN IR(Log(o.in, [ev |-> "set_begin", instance |-> o.r.v.ref,
                               token |-> property]),
                    Panic("stack overflow in dbg!(instance)"))
            ELSE store(o.r.v.ref,
                       evaluate(Log(o.in, [ev |-> "set_begin", instance |-> o.r.v.ref,
                                           token |-> property]), value))
    IN  set(evaluate(in, object))

\* visit_this_expr: `this` is looked up as a variable of that name
Interpreter_visit_this_expr(in, token, id) ==
    Interpreter_visit_variable_expr(in, token, id)

Callable_call(callable, arguments, in) ==
    CASE callable.impl = "ClockFunction" -> ClockFunction_call(arguments, in)
      [] callable.impl = "UserFunction" -> UserFunction_call(callable, arguments, in)
      [] callable.impl = "LoxClass" -> LoxClass_call(callable, arguments, in)

evaluate(in, expr) ==
    CASE expr.e = "Binary" ->
            Interpreter_visit_binary_expr(in, expr.left, expr.token, expr.right)
      [] expr.e = "Grouping" -> Interpreter_visit_grouping_expr(in, expr.expr)
      [] expr.e = "Unary" -> Interpreter_visit_unary_expr(in, expr.token, expr.right)
      [] expr.e = "Conditional" ->
            Interpreter_visit_conditional_expr(in, expr.cond, expr.then_branch,
                                               expr.else_branch)
      [] expr.e = "Number" -> Interpreter_visit_literal_expr_number(in, expr.value)
      [] expr.e = "String" -> Interpreter_visit_literal_expr_string(in, expr.value)
      [] expr.e = "Boolean" -> Interpreter_visit_literal_expr_boolean(in, expr.value)
      [] expr.e = "Nil" -> Interpreter_visit_literal_expr_nil(in)
      [] expr.e = "Variable" -> Interpreter_visit_variable_expr(in, expr.token, expr.id)
      [] expr.e = "Assign" ->
            Interpreter_visit_assign_expr(in, expr.token, expr.value, expr.id)
      [] expr.e = "LogicOr" -> Interpreter_visit_logic_or(in, expr.left, expr.right)
      [] expr.e = "LogicAnd" -> Interpreter_visit_logic_and(in, expr.left, expr.right)
      [] expr.e = "Call" ->
            Interpreter_visit_call_expr(in, expr.callee, expr.token, expr.args)
      [] expr.e = "Get" -> Interpreter_visit_get_expr(in, expr.object, expr.token)
      [] expr.e = "Set" ->
            Interpreter_visit_set_expr(in, expr.object, expr.token, expr.value)
      [] expr.e = "This" -> Interpreter_visit_this_expr(in, expr.token, expr.id)

\* history: every statement the interpreter starts is recorded
execute(in, stmt) ==
    LET accept(in1) ==
          CASE stmt.s = "Block" -> Interpreter_visit_block_stmt(in1, stmt.statements)
            [] stmt.s = "Expression" -> Interpreter_visit_expression_stmt(in1, stmt.expr)
            [] stmt.s = "Print" -> Interpreter_visit_print_stmt(in1, stmt.expr)
            [] stmt.s = "Var" -> Interpreter_visit_var_stmt(in1, stmt.token, stmt.expr)
            [] stmt.s = "If" ->
                  Interpreter_visit_if_stmt(in1, stmt.cond, stmt.then_branch,
                                            stmt.else_branch)
            [] stmt.s = "While" ->
                  Interpreter_visit_while_stmt(in1, stmt.cond, stmt.block)
            [] stmt.s = "Function" ->
                  Interpreter_visit_function_stmt(in1, stmt.token, stmt.params, stmt.body)
            [] stmt.s = "Return" ->
                  Interpreter_visit_return_stmt(in1, stmt.token, stmt.expr)
            [] stmt.s = "Class" ->
                  Interpreter_visit_class_stmt(in1, stmt.token, stmt.methods)
    IN  accept(Log(in, [ev |-> "stmt", s |-> stmt.s, env |-> in.local_environment,
                        gdepth |-> in.gdepth]))

-----------------------------------------------------------------------------
(* The programs the model runs: statement lists as lox::run returns them   *)
(* for a source text without lexical or syntax errors.                     *)

V(token, id) == Expr_Variable(token, id)
\* a literal is never negative: `-2` parses as Unary(-, 2)
NumLit(x) == IF x < 0 THEN Expr_Unary("-", Expr_Number(-x)) ELSE Expr_Number(x)
BadExpr == Expr_Unary("-", Expr_String("a"))

\* The pool of top-level statements of the generated programs; `k` is the
\* position of the statement, which keeps the node ids of a program apart.
StmtPool(k) == <<
    \* var a = 1;
    Stmt_Var("a", Some(Expr_Number(1))),
    \* a;
    Stmt_Expression(V("a", 10 * k + 1)),
    \* { var a = 2; a; }
    Stmt_Block(<< Stmt_Var("a", Some(Expr_Number(2))),
                  Stmt_Expression(V("a", 10 * k + 1)) >>),
    \* fun f() { a = a + 1; return a; }
    Stmt_Function("f", << >>,
        << Stmt_Expression(Expr_Assign("a",
               Expr_Binary(V("a", 10 * k + 1), "+", Expr_Number(1)), 10 * k + 2)),
           Stmt_Return(V("a", 10 * k + 3)) >>),
    \* f();
    Stmt_Expression(Expr_Call(V("f", 10 * k + 1), << >>)),
    \* -"a";
    Stmt_Expression(BadExpr),
    \* { var a = a; }
    Stmt_Block(<< Stmt_Var("a", Some(V("a", 10 * k + 1))) >>),
    \* a = 3;
    Stmt_Expression(Expr_Assign("a", Expr_Number(3), 10 * k + 1))
>>

PoolSize == Len(StmtPool(1))

GeneratedPrograms ==
    UNION {{[i \in 1..n |-> StmtPool(i)[c[i]]] : c \in [1..n -> 1..PoolSize]} :
             n \in 1..MaxProgLen}

\* x / y; and x * y; for small x and y
ArithmeticPrograms ==
    {<< Stmt_Expression(Expr_Binary(NumLit(x), op, NumLit(y))) >> :
        x \in (0 - MaxNum)..MaxNum, y \in (0 - MaxNum)..MaxNum, op \in {"/", "*"}}

\* var a = "global"; { var a = "local"; print a; } print a;
ProgShadow == <<
    Stmt_Var("a", Some(Expr_String("global"))),
    Stmt_Block(<< Stmt_Var("a", Some(Expr_String("local"))),
                  Stmt_Print(V("a", 1)) >>),
    Stmt_Print(V("a", 2)) >>

\* var g = nil;
\* { var c = 0; fun inc() { c = c + 1; return c; } g = inc; }
\* g(); var r = g(); r;
ProgCounter == <<
    Stmt_Var("g", Some(Expr_Nil)),
    Stmt_Block(<<
        Stmt_Var("c", Some(Expr_Number(0))),
        Stmt_Function("inc", << >>,
            << Stmt_Expression(Expr_Assign("c",
                   Expr_Binary(V("c", 1), "+", Expr_Number(1)), 2)),
               Stmt_Return(V("c", 3)) >>),
        Stmt_Expression(Expr_Assign("g", V("inc", 4), 5)) >>),
    Stmt_Expression(Expr_Call(V("g", 6), << >>)),
    Stmt_Var("r", Some(Expr_Call(V("g", 7), << >>))),
    Stmt_Expression(V("r", 8)) >>

\* var g = nil; var h = nil;
\* { var c = 0; fun inc() { c = c + 1; } fun get() { return c; } g = inc; h = get; }
\* g(); var r = h(); r;
ProgSiblings == <<
    Stmt_Var("g", Some(Expr_Nil)),
    Stmt_Var("h", Some(Expr_Nil)),
    Stmt_Block(<<
        Stmt_Var("c", Some(Expr_Number(0))),
        Stmt_Function("inc", << >>,
            << Stmt_Expression(Expr_Assign("c",
                   Expr_Binary(V("c", 1), "+", Expr_Number(1)), 2)) >>),
        Stmt_Function("get", << >>, << Stmt_Return(V("c", 3)) >>),
        Stmt_Expression(Expr_Assign("g", V("inc", 4), 5)),
        Stmt_Expression(Expr_Assign("h", V("get", 6), 7)) >>),
    Stmt_Expression(Expr_Call(V("g", 8), << >>)),
    Stmt_Var("r", Some(Expr_Call(V("h", 9), << >>))),
    Stmt_Expression(V("r", 10)) >>

\* var a = 1;
\* fun f() { a = a + 1; { var b = a; return b; } }
\* { var a = 10; { var r = f(); r; } }
\* a;
ProgDepth == <<
    Stmt_Var("a", Some(Expr_Number(1))),
    Stmt_Function("f", << >>,
        << Stmt_Expression(Expr_Assign("a",
               Expr_Binary(V("a", 1), "+", Expr_Number(1)), 2)),
           Stmt_Block(<< Stmt_Var("b", Some(V("a", 3))),
                         Stmt_Return(V("b", 4)) >>) >>),
    Stmt_Block(<<
        Stmt_Var("a", Some(Expr_Number(10))),
        Stmt_Block(<< Stmt_Var("r", Some(Expr_Call(V("f", 5), << >>))),
                      Stmt_Expression(V("r", 6)) >>) >>),
    Stmt_Expression(V("a", 7)) >>

\* fun f(n) { while (true) { if (n > 0) { return n; } n = n + 1; } return 99; }
\* fun g() { var x = f(0); x = x + 10; return x; }
\* fun h() { 1; }
\* var r = g(); var q = h(); r; q;
ProgReturn == <<
    Stmt_Function("f", << "n" >>,
        << Stmt_While(Expr_Boolean(TRUE),
               Stmt_Block(<<
                   Stmt_If(Expr_Binary(V("n", 1), ">", Expr_Number(0)),
                           Stmt_Block(<< Stmt_Return(V("n", 2)) >>), None),
                   Stmt_Expression(Expr_Assign("n",
                       Expr_Binary(V("n", 3), "+", Expr_Number(1)), 4)) >>)),
           Stmt_Return(Expr_Number(99)) >>),
    Stmt_Function("g", << >>,
        << Stmt_Var("x", Some(Expr_Call(V("f", 5), << Expr_Number(0) >>))),
           Stmt_Expression(Expr_Assign("x",
               Expr_Binary(V("x", 6), "+", Expr_Number(10)), 7)),
           Stmt_Return(V("x", 8)) >>),
    Stmt_Function("h", << >>, << Stmt_Expression(Expr_Number(1)) >>),
    Stmt_Var("r", Some(Expr_Call(V("g", 9), << >>))),
    Stmt_Var("q", Some(Expr_Call(V("h", 10), << >>))),
    Stmt_Expression(V("r", 11)),
    Stmt_Expression(V("q", 12)) >>

\* var a = 1;
\* fun f() { { a; } { -"a"; } a = 5; }
\* fun g() { { return a; } }
\* { var b = g(); { f(); } b = 3; }
\* a;
ProgErrorPaths == <<
    Stmt_Var("a", Some(Expr_Number(1))),
    Stmt_Function("f", << >>,
        << Stmt_Block(<< Stmt_Expression(V("a", 1)) >>),
           Stmt_Block(<< Stmt_Expression(BadExpr) >>),
           Stmt_Expression(Expr_Assign("a", Expr_Number(5), 2)) >>),
    Stmt_Function("g", << >>,
        << Stmt_Block(<< Stmt_Return(V("a", 3)) >>) >>),
    Stmt_Block(<<
        Stmt_Var("b", Some(Expr_Call(V("g", 4), << >>))),
        Stmt_Block(<< Stmt_Expression(Expr_Call(V("f", 5), << >>)) >>),
        Stmt_Expression(Expr_Assign("b", Expr_Number(3), 6)) >>),
    Stmt_Expression(V("a", 7)) >>

\* fun f() { return a; } var a = 1; var r = f() + a; r;
ProgForward == <<
    Stmt_Function("f", << >>, << Stmt_Return(V("a", 1)) >>),
    Stmt_Var("a", Some(Expr_Number(1))),
    Stmt_Var("r", Some(Expr_Binary(Expr_Call(V("f", 2), << >>), "+", V("a", 3)))),
    Stmt_Expression(V("r", 4)) >>

\* var t = clock(); t;
ProgClock == <<
    Stmt_Var("t", Some(Expr_Call(V("clock", 1), << >>))),
    Stmt_Expression(V("t", 2)) >>

\* var a = 1; var b = a; b;
ProgInitFromOther == <<
    Stmt_Var("a", Some(Expr_Number(1))),
    Stmt_Var("b", Some(V("a", 1))),
    Stmt_Expression(V("b", 2)) >>

\* var a = a;
ProgSelfInitTop == << Stmt_Var("a", Some(V("a", 1))) >>

\* var a = 1; { var b = a; var a = a; }
ProgSelfInitBlock == <<
    Stmt_Var("a", Some(Expr_Number(1))),
    Stmt_Block(<< Stmt_Var("b", Some(V("a", 1))),
                  Stmt_Var("a", Some(V("a", 2))) >>) >>

\* var a = 1; { var a = 2; var a = 3; }
ProgDupInBlock == <<
    Stmt_Var("a", Some(Expr_Number(1))),
    Stmt_Block(<< Stmt_Var("a", Some(Expr_Number(2))),
                  Stmt_Var("a", Some(Expr_Number(3))) >>) >>

\* { var a; var a; }
ProgDupVar == << Stmt_Block(<< Stmt_Var("a", None), Stmt_Var("a", None) >>) >>

\* fun f(x, x) { }
ProgDupParam == << Stmt_Function("f", << "x", "x" >>, << >>) >>

\* fun f(a) { var a; }
ProgParamThenVar == << Stmt_Function("f", << "a" >>, << Stmt_Var("a", None) >>) >>

\* { fun f() { } fun f() { } }
ProgDupFun == << Stmt_Block(<< Stmt_Function("f", << >>, << >>),
                               Stmt_Function("f", << >>, << >>) >>) >>

\* class C { } class C { }
ProgDupClass == << Stmt_Class("C", << >>), Stmt_Class("C", << >>) >>

\* var a = 1; { var a = 2; { fun a() { } a; } a; } a;
ProgNestedSame == <<
    Stmt_Var("a", Some(Expr_Number(1))),
    Stmt_Block(<<
        Stmt_Var("a", Some(Expr_Number(2))),
        Stmt_Block(<< Stmt_Function("a", << >>, << >>),
                      Stmt_Expression(V("a", 1)) >>),
        Stmt_Expression(V("a", 2)) >>),
    Stmt_Expression(V("a", 3)) >>

\* fun f(a) { { var a = a ? 1 : 2; a; } return a and (a or nil); }
\* class K { m(x) { return x; } }
\* { class K { } K; }
\* var r = f(true); r == K;
ProgMixed == <<
    Stmt_Function("f", << "a" >>,
        << Stmt_Block(<<
               Stmt_Var("b", Some(Expr_Conditional(V("a", 1), Expr_Number(1),
                                                   Expr_Number(2)))),
               Stmt_Expression(Expr_Grouping(V("b", 2))) >>),
           Stmt_Return(Expr_LogicAnd(V("a", 3), Expr_LogicOr(V("a", 4), Expr_Nil))) >>),
    Stmt_Class("K", << Method("m", << "x" >>, << Stmt_Return(V("x", 5)) >>) >>),
    Stmt_Block(<< Stmt_Class("K", << >>), Stmt_Expression(V("K", 6)) >>),
    Stmt_Var("r", Some(Expr_Call(V("f", 7), << Expr_Boolean(TRUE) >>))),
    Stmt_Expression(Expr_Binary(V("r", 8), "==", V("K", 9))) >>

\* fun f() { } print 1;
ProgPrintWithFunction == <<
    Stmt_Function("f", << >>, << >>),
    Stmt_Print(Expr_Number(1)),
    Stmt_Expression(V("f", 1)) >>

\* return 1;
ProgTopReturn == << Stmt_Return(Expr_Number(1)) >>

\* fun f() { fun g() { return 1; } return g; } return 3;
ProgReturnPlaces == <<
    Stmt_Function("f", << >>,
        << Stmt_Function("g", << >>, << Stmt_Return(Expr_Number(1)) >>),
           Stmt_Return(V("g", 1)) >>),
    Stmt_Return(Expr_Number(3)) >>

\* class C { m() { return 1; } } C; return 2;
ProgReturnAfterClass == <<
    Stmt_Class("C", << Method("m", << >>, << Stmt_Return(Expr_Number(1)) >>) >>),
    Stmt_Expression(V("C", 1)),
    Stmt_Return(Expr_Number(2)) >>

\* class C { m() { { this; } fun g() { this; } } }
ProgThisPlaces == <<
    Stmt_Class("C", << Method("m", << >>,
        << Stmt_Block(<< Stmt_Expression(Expr_This(1)) >>),
           Stmt_Function("g", << >>, << Stmt_Expression(Expr_This(2)) >>) >>) >>) >>

\* this;
ProgThisTop == << Stmt_Expression(Expr_This(1)) >>

\* class C { m() { return this; } } fun f() { this; }
ProgThisAfterClass == <<
    Stmt_Class("C", << Method("m", << >>, << Stmt_Return(Expr_This(1)) >>) >>),
    Stmt_Function("f", << >>, << Stmt_Expression(Expr_This(2)) >>) >>

\* class C { } class C { m(x) { x; } n(y, y) { } } var a = 1;
ProgDupClassMethods == <<
    Stmt_Class("C", << >>),
    Stmt_Class("C", << Method("m", << "x" >>, << Stmt_Expression(V("x", 1)) >>),
                       Method("n", << "y", "y" >>, << >>) >>),
    Stmt_Var("a", Some(Expr_Number(1))) >>

\* fun f(x, y) { return x - y; }
\* var a = 1; a(); f(1); f(1, 2, 3); var r = f(3, 1); r;
ProgCalls == <<
    Stmt_Function("f", << "x", "y" >>,
        << Stmt_Return(Expr_Binary(V("x", 1), "-", V("y", 2))) >>),
    Stmt_Var("a", Some(Expr_Number(1))),
    Stmt_Expression(Expr_Call(V("a", 3), << >>)),
    Stmt_Expression(Expr_Call(V("f", 4), << Expr_Number(1) >>)),
    Stmt_Expression(Expr_Call(V("f", 5),
        << Expr_Number(1), Expr_Number(2), Expr_Number(3) >>)),
    Stmt_Var("r", Some(Expr_Call(V("f", 6), << Expr_Number(3), Expr_Number(1) >>))),
    Stmt_Expression(V("r", 7)) >>

\* class C { init(x) { this.x = x; } }
\* var o = C(5); o;
ProgClassInit == <<
    Stmt_Class("C", << Method("init", << "x" >>,
        << Stmt_Expression(Expr_Set(Expr_This(1), "x", V("x", 2))) >>) >>),
    Stmt_Var("o", Some(Expr_Call(V("C", 3), << Expr_Number(5) >>))),
    Stmt_Expression(V("o", 4)) >>

\* class C { init(x) { this.x = x; } }
\* var o = C(); o;
ProgClassInitNoArgs == <<
    Stmt_Class("C", << Method("init", << "x" >>,
        << Stmt_Expression(Expr_Set(Expr_This(1), "x", V("x", 2))) >>) >>),
    Stmt_Var("o", Some(Expr_Call(V("C", 3), << >>))),
    Stmt_Expression(V("o", 4)) >>

\* class C { m() { return 1; } }
\* var o = C(); o.m; o.x = 2; o.x; o.x = 1; o.x; o.y;
ProgClassProperties == <<
    Stmt_Class("C", << Method("m", << >>, << Stmt_Return(Expr_Number(1)) >>) >>),
    Stmt_Var("o", Some(Expr_Call(V("C", 1), << >>))),
    Stmt_Expression(Expr_Get(V("o", 2), "m")),
    Stmt_Expression(Expr_Set(V("o", 3), "x", Expr_Number(2))),
    Stmt_Expression(Expr_Get(V("o", 4), "x")),
    Stmt_Expression(Expr_Set(V("o", 5), "x", Expr_Number(1))),
    Stmt_Expression(Expr_Get(V("o", 6), "x")),
    Stmt_Expression(Expr_Get(V("o", 7), "y")) >>

\* class C {} var o = C(); var p = C(); o.x = 1; p.x;
\* var n = 1; n.x; n.x = 2;
ProgClassFields == <<
    Stmt_Class("C", << >>),
    Stmt_Var("o", Some(Expr_Call(V("C", 1), << >>))),
    Stmt_Var("p", Some(Expr_Call(V("C", 2), << >>))),
    Stmt_Expression(Expr_Set(V("o", 3), "x", Expr_Number(1))),
    Stmt_Expression(Expr_Get(V("p", 4), "x")),
    Stmt_Var("n", Some(Expr_Number(1))),
    Stmt_Expression(Expr_Get(V("n", 5), "x")),
    Stmt_Expression(Expr_Set(V("n", 6), "x", Expr_Number(2))) >>

\* class C {} var o = C(); o.self = o; o.y = 1; o.y;
ProgClassSelf == <<
    Stmt_Class("C", << >>),
    Stmt_Var("o", Some(Expr_Call(V("C", 1), << >>))),
    Stmt_Expression(Expr_Set(V("o", 2), "self", V("o", 3))),
    Stmt_Expression(Expr_Set(V("o", 4), "y", Expr_Number(1))),
    Stmt_Expression(Expr_Get(V("o", 5), "y")) >>

\* var x; x; b = 1; b; x = 2; x; { var y; y = x; y; x = 1; } x;
ProgAssignGet == <<
    Stmt_Var("x", None),
    Stmt_Expression(V("x", 1)),
    Stmt_Expression(Expr_Assign("b", Expr_Number(1), 2)),
    Stmt_Expression(V("b", 3)),
    Stmt_Expression(Expr_Assign("x", Expr_Number(2), 4)),
    Stmt_Expression(V("x", 5)),
    Stmt_Block(<< Stmt_Var("y", None),
                  Stmt_Expression(Expr_Assign("y", V("x", 6), 7)),
                  Stmt_Expression(V("y", 8)),
                  Stmt_Expression(Expr_Assign("x", Expr_Number(1), 9)) >>),
    Stmt_Expression(V("x", 10)) >>

ScenarioPrograms ==
    { ProgAssignGet, ProgClassSelf, ProgClassInit, ProgClassInitNoArgs, ProgClassProperties, ProgClassFields,
      ProgCalls, ProgReturnPlaces, ProgReturnAfterClass, ProgThisPlaces, ProgThisTop,
      ProgThisAfterClass, ProgDupClassMethods,
      ProgShadow, ProgCounter, ProgSiblings, ProgDepth, ProgReturn, ProgErrorPaths,
      ProgForward, ProgClock, ProgInitFromOther, ProgSelfInitTop, ProgSelfInitBlock,
      ProgDupVar, ProgDupInBlock, ProgDupParam, ProgParamThenVar, ProgDupFun,
      ProgDupClass, ProgNestedSame, ProgMixed, ProgPrintWithFunction, ProgTopReturn }

Programs == ScenarioPrograms \cup GeneratedPrograms \cup ArithmeticPrograms

\* readings of the system clock (seconds)
ClockReadings == {1, 2}

-----------------------------------------------------------------------------
(* run_file (src/src/lox.rs) as a state machine                            *)

\* ---- Scanner (src/src/scanner.rs)

\* longest generated source text, in characters
MaxSourceLen == 3

\* A source text is a sequence of characters; a character is a one-character
\* string, except the two-byte character U+00E9 and the NUL that peek
\* answers at the end.
NonAscii == "U+00E9"
NUL == "NUL"
Digits == {"0", "1", "2", "3", "4", "5", "6", "7", "8", "9"}
Letters == {"a", "b", "c", "d", "e", "f", "g", "h", "i", "j", "k", "l", "m",
            "n", "o", "p", "q", "r", "s", "t", "u", "v", "w", "x", "y", "z"}
\* char::len_utf8
len_utf8(c) == IF c = NonAscii THEN 2 ELSE 1
\* char::is_ascii_digit, char::is_ascii_alphanumeric
is_ascii_digit(c) == c \in Digits
is_ascii_alphanumeric(c) == c \in Digits \cup Letters

\* the byte offset of the k-th character boundary of a text (k = 0 .. Len)
RECURSIVE byte_offset(_, _)
byte_offset(source, k) ==
    IF k = 0 THEN 0 ELSE byte_offset(source, k - 1) + len_utf8(source[k])
\* String::len: the length in bytes
String_len(source) == byte_offset(source, Len(source))
\* source.chars().nth(n)
chars_nth(source, n) == IF n < Len(source) THEN Some(source[n + 1]) ELSE None
\* &source[from..to]: the characters between two byte offsets, None for
\* the panic on offsets that are out of range or inside a character
str_slice(source, from, to) ==
    IF /\ from <= to
       /\ \E a, b \in 0 .. Len(source) :
             byte_offset(source, a) = from /\ byte_offset(source, b) = to
    THEN LET a == CHOOSE a \in 0 .. Len(source) : byte_offset(source, a) = from
             b == CHOOSE b \in 0 .. Len(source) : byte_offset(source, b) = to
         IN  Some(SubSeq(source, a + 1, b))
    ELSE None

\* Token::new(kind, lexeme, line)
Token_new(kind, lexeme, line) == [kind |-> kind, lexeme |-> lexeme, line |-> line]
TokenType(t) == [t |-> t]
TokenType_String(value) == [t |-> "String", value |-> value]
TokenType_Number(value) == [t |-> "Number", value |-> value]

\* Scanner::new(source); `state` is the position of scan_tokens ("scanning",
\* "done", "panicked") and `errors` what was handed to lox::error
\* (history: `gends` is the cursor at which each token was added, `at` of an
\* error the cursor at which it was reported)
Scanner_new(source) ==
    [source |-> source, tokens |-> << >>, start |-> 0, current |-> 0, line |-> 1,
     errors |-> << >>, state |-> "scanning", gends |-> << >>]
\* no scanner: the scan is over and its tokens were parsed
NoScanner ==
    [source |-> << >>, tokens |-> << >>, start |-> 0, current |-> 0, line |-> 1,
     errors |-> << >>, state |-> "dropped", gends |-> << >>]

panicked(sc) == sc.state = "panicked"
\* a panic: unwrap() on None, or a slice that is not on character boundaries
scanner_panic(sc) == [sc EXCEPT !.state = "panicked"]
\* lox::error(line, message)
lox_error(sc, message) ==
    [sc EXCEPT !.errors = Append(@, [line |-> sc.line, message |-> message,
                                     at |-> sc.current])]

is_at_end(sc) == sc.current >= String_len(sc.source)

\* advance: the character is in `c`, None when unwrap() panicked
advance(sc) ==
    [sc |-> IF chars_nth(sc.source, sc.current) = None
            THEN scanner_panic([sc EXCEPT !.current = @ + 1])
            ELSE [sc EXCEPT !.current = @ + 1],
     c |-> chars_nth(sc.source, sc.current)]

\* peek: None when unwrap() panics
peek(sc) == IF is_at_end(sc) THEN Some(NUL) ELSE chars_nth(sc.source, sc.current)
peek_next(sc) == chars_nth(sc.source, sc.current + 1)

\* a_match(expected): the scanner after it and what it returned
a_match(sc, expected) ==
    IF is_at_end(sc) THEN [sc |-> sc, b |-> FALSE]
    ELSE IF chars_nth(sc.source, sc.current) # Some(expected)
    THEN [sc |-> sc, b |-> FALSE]
    ELSE [sc |-> [sc EXCEPT !.current = @ + 1], b |-> TRUE]

add_token(sc, kind) ==
    LET text == str_slice(sc.source, sc.start, sc.current)
    IN  IF text = None THEN scanner_panic(sc)
        ELSE [sc EXCEPT !.tokens = Append(@, Token_new(kind, text.x, sc.line)),
                        !.gends = Append(@, sc.current)]

\* while self.peek() != '\n' && !self.is_at_end() { self.advance(); }
RECURSIVE line_comment(_)
line_comment(sc) ==
    IF peek(sc) = None THEN scanner_panic(sc)
    ELSE IF peek(sc).x # "\n" /\ ~is_at_end(sc) THEN line_comment(advance(sc).sc)
    ELSE sc

\* while (self.peek() != '*' || self.peek_next() != Some('/')) && !self.is_at_end()
RECURSIVE block_comment_body(_)
block_comment_body(sc) ==
    IF peek(sc) = None THEN scanner_panic(sc)
    ELSE IF (peek(sc).x # "*" \/ peek_next(sc) # Some("/")) /\ ~is_at_end(sc)
    THEN block_comment_body(advance(sc).sc)
    ELSE sc

\* if !(self.a_match('*') && self.a_match('/')) { error; return; }
block_comment(sc) ==
    LET second(m) == IF m.b THEN m.sc ELSE lox_error(m.sc, "Unterminated block comment.")
        first(m) == IF m.b THEN second(a_match(m.sc, "/"))
                    ELSE lox_error(m.sc, "Unterminated block comment.")
        close(body) == IF panicked(body) THEN body ELSE first(a_match(body, "*"))
    IN  close(block_comment_body(sc))

\* while self.peek() != '"' && !self.is_at_end() { count the line; advance }
RECURSIVE string_body(_)
string_body(sc) ==
    IF peek(sc) = None THEN scanner_panic(sc)
    ELSE IF peek(sc).x # "\"" /\ ~is_at_end(sc)
    THEN string_body(advance(IF peek(sc).x = "\n"
                             THEN [sc EXCEPT !.line = @ + 1] ELSE sc).sc)
    ELSE sc

Scanner_string(sc) ==
    LET token(closed, value) ==
            IF value = None THEN scanner_panic(closed)
            ELSE add_token(closed, TokenType_String(value.x))
        closing(closed) ==
            IF panicked(closed) THEN closed
            ELSE token(closed, str_slice(closed.source, closed.start + 1,
                                         closed.current - 1))
        close(body) ==
            IF panicked(body) THEN body
            ELSE IF is_at_end(body) THEN lox_error(body, "Unterminated string.")
            ELSE closing(advance(body).sc)
    IN  close(string_body(sc))

\* while self.peek().is_ascii_digit() { self.advance(); }
RECURSIVE digits(_)
digits(sc) ==
    IF peek(sc) = None THEN scanner_panic(sc)
    ELSE IF is_ascii_digit(peek(sc).x) THEN digits(advance(sc).sc)
    ELSE sc

\* str::parse::<f64> of a decimal numeral (digits, at most one point, at
\* least one digit): its value as numerator over a power of ten; None for
\* the Err of any other text
digit_value(c) ==
    CHOOSE d \in 0 .. 9 : <<"0", "1", "2", "3", "4", "5", "6", "7", "8", "9">>[d + 1] = c
RECURSIVE parse_digits(_, _)
parse_digits(text, acc) ==
    IF text = << >> THEN acc
    ELSE IF Head(text) = "."
    THEN parse_digits(Tail(text), [acc EXCEPT !.den = 1, !.point = TRUE])
    ELSE parse_digits(Tail(text),
             [acc EXCEPT !.num = @ * 10 + digit_value(Head(text)),
                         !.den = IF acc.point THEN @ * 10 ELSE @])
parse_f64(text) ==
    IF /\ \A i \in DOMAIN text : text[i] \in Digits \cup {"."}
       /\ \E i \in DOMAIN text : text[i] \in Digits
       /\ Cardinality({i \in DOMAIN text : text[i] = "."}) <= 1
    THEN Some([num |-> parse_digits(text, [num |-> 0, den |-> 1, point |-> FALSE]).num,
               den |-> parse_digits(text, [num |-> 0, den |-> 1, point |-> FALSE]).den])
    ELSE None

Scanner_number(sc) ==
    LET token(done, text) ==
            IF text = None \/ parse_f64(text.x) = None THEN scanner_panic(done)
            ELSE add_token(done, TokenType_Number(parse_f64(text.x).x))
        value(done) ==
            IF panicked(done) THEN done
            ELSE token(done, str_slice(done.source, done.start, done.current))
        is_peek_next_digit(int) ==
            peek_next(int) # None /\ is_ascii_digit(peek_next(int).x)
        fraction(int) ==
            IF panicked(int) THEN int
            ELSE IF peek(int) = Some(".") /\ is_peek_next_digit(int)
            THEN value(digits(advance(int).sc))
            ELSE value(int)
    IN  fraction(digits(sc))

\* while self.peek().is_ascii_alphanumeric() { self.advance(); }
RECURSIVE alphanumerics(_)
alphanumerics(sc) ==
    IF peek(sc) = None THEN scanner_panic(sc)
    ELSE IF is_ascii_alphanumeric(peek(sc).x) THEN alphanumerics(advance(sc).sc)
    ELSE sc

\* the match on the identifier's text
keyword(text) ==
    CASE text = <<"a", "n", "d">> -> "And"
      [] text = <<"c", "l", "a", "s", "s">> -> "Class"
      [] text = <<"e", "l", "s", "e">> -> "Else"
      [] text = <<"f", "a", "l", "s", "e">> -> "False"
      [] text = <<"f", "o", "r">> -> "For"
      [] text = <<"f", "u", "n">> -> "Fun"
      [] text = <<"i", "f">> -> "If"
      [] text = <<"n", "i", "l">> -> "Nil"
      [] text = <<"o", "r">> -> "Or"
      [] text = <<"p", "r", "i", "n", "t">> -> "Print"
      [] text = <<"r", "e", "t", "u", "r", "n">> -> "Return"
      [] text = <<"s", "u", "p", "e", "r">> -> "Super"
      [] text = <<"t", "h", "i", "s">> -> "This"
      [] text = <<"t", "r", "u", "e">> -> "True"
      [] text = <<"v", "a", "r">> -> "Var"
      [] text = <<"w", "h", "i", "l", "e">> -> "While"
      [] OTHER -> "Identifier"

Scanner_identifier(sc) ==
    LET kind(done, text) ==
            IF text = None THEN scanner_panic(done)
            ELSE add_token(done, TokenType(keyword(text.x)))
        name(done) ==
            IF panicked(done) THEN done
            ELSE kind(done, str_slice(done.source, done.start, done.current))
    IN  name(alphanumerics(sc))

\* the one-character tokens
SingleCharacter ==
    [c \in {"(", ")", "{", "}", ",", ".", "-", "+", ";", "*", "?", ":"} |->
        CASE c = "(" -> "LeftParen" [] c = ")" -> "RightParen"
          [] c = "{" -> "LeftBrace" [] c = "}" -> "RightBrace"
          [] c = "," -> "Comma" [] c = "." -> "Dot" [] c = "-" -> "Minus"
          [] c = "+" -> "Plus" [] c = ";" -> "Semicolon" [] c = "*" -> "Star"
          [] c = "?" -> "Question" [] c = ":" -> "Colon"]
\* the tokens that a following `=` makes longer
WithEqual ==
    [c \in {"!", "=", "<", ">"} |->
        CASE c = "!" -> <<"BangEqual", "Bang">>
          [] c = "=" -> <<"EqualEqual", "Equal">>
          [] c = "<" -> <<"LessEqual", "Less">>
          [] c = ">" -> <<"GreaterEqual", "Greater">>]

scan_token(sc) ==
    LET one_or_two(c, m) ==
            add_token(m.sc, TokenType(IF m.b THEN WithEqual[c][1] ELSE WithEqual[c][2]))
        star(m) == IF m.b THEN block_comment(m.sc)
                   ELSE add_token(m.sc, TokenType("Slash"))
        slash(m) == IF m.b THEN line_comment(m.sc) ELSE star(a_match(m.sc, "*"))
        match(a) ==
            IF a.c = None THEN a.sc
            ELSE CASE a.c.x \in DOMAIN SingleCharacter ->
                        add_token(a.sc, TokenType(SingleCharacter[a.c.x]))
                   [] a.c.x \in DOMAIN WithEqual -> one_or_two(a.c.x, a_match(a.sc, "="))
                   [] a.c.x = "/" -> slash(a_match(a.sc, "/"))
                   [] a.c.x \in {" ", "\r"} -> a.sc
                   [] a.c.x = "\n" -> [a.sc EXCEPT !.line = @ + 1]
                   [] a.c.x = "\"" -> Scanner_string(a.sc)
                   [] a.c.x \in Digits -> Scanner_number(a.sc)
                   [] a.c.x \in Letters \cup {"_"} -> Scanner_identifier(a.sc)
                   [] OTHER -> lox_error(a.sc, "Unexpected character.")
    IN  match(advance(sc))

\* the characters generated source texts are made of
Alphabet == {"a", "1", ".", "/", "*", "=", "\"", "\n", "@", NonAscii}
RECURSIVE Texts(_)
Texts(n) ==
    IF n = 0 THEN {<< >>}
    ELSE Texts(n - 1) \cup
         {Append(t, c) : t \in {u \in Texts(n - 1) : Len(u) = n - 1}, c \in Alphabet}

\* // a<newline>(1.5 >= x) /* c */ "s" or
SourceSimple ==
    <<"/", "/", " ", "a", "\n", "(", "1", ".", "5", " ", ">", "=", " ", "x", ")", " ",
      "/", "*", " ", "c", " ", "*", "/", " ", "\"", "s", "\"", " ", "o", "r">>
\* 1 /* a<newline>
SourceOpenComment == <<"1", " ", "/", "*", " ", "a", "\n">>
\* "a<newline>b" @ a_b "c
SourceStrings ==
    <<"\"", "a", "\n", "b", "\"", " ", "@", " ", "a", "_", "b", " ", "\"", "c">>
\* print "<U+00E9>";
SourceNonAscii == <<"p", "r", "i", "n", "t", " ", "\"", NonAscii, "\"", ";">>
\* // caf<U+00E9><newline>1;
SourceNonAsciiComment ==
    <<"/", "/", " ", "c", "a", "f", NonAscii, "\n", "1", ";">>

Sources ==
    Texts(MaxSourceLen) \cup
    {SourceSimple, SourceOpenComment, SourceStrings, SourceNonAscii,
     SourceNonAsciiComment}

-----------------------------------------------------------------------------
(* Parser (src/src/parser.rs).  tokens_iter is the token slice and `pos`,  *)
(* the number of tokens the iterator has yielded.  `errors` is what was    *)
(* handed to lox::error_token, `glog` the history of declaration calls.    *)

MAX_FUN_ARGUMENTS == 255

\* LoxError::ParserError(line, message)
ParserError(line, msg) == [kind |-> "ParserError", line |-> line, msg |-> msg]
\* what a parsing function returns: the parser it leaves and its Result
\* (`ok` says whether that is an Ok)
PR(p, r) == [p |-> p, r |-> r, ok |-> r.k = "Ok"]

\* Parser::new(tokens, allow_only_expression); `state` is the position of
\* parse ("parsing", "done", "panicked"), `parsed_list` its local Vec and
\* `result` the ParseResult it returned
Parser_new(tokens, allow_only_expression) ==
    [tokens |-> tokens, pos |-> 0, allow_only_expression |-> allow_only_expression,
     found_only_expr |-> FALSE, errors |-> << >>, glog |-> << >>, next_id |-> 1,
     parsed_list |-> << >>, result |-> None, state |-> "parsing"]
\* no parser: the scan is not over, or the program was not parsed by the model
NoParser ==
    [tokens |-> << >>, pos |-> 0, allow_only_expression |-> FALSE,
     found_only_expr |-> FALSE, errors |-> << >>, glog |-> << >>, next_id |-> 1,
     parsed_list |-> << >>, result |-> None, state |-> "dropped"]

\* the text of a lexeme (the syntax tree names a token by it)
RECURSIVE lexeme_text(_)
lexeme_text(lexeme) ==
    IF lexeme = << >> THEN "" ELSE Head(lexeme) \o lexeme_text(Tail(lexeme))
\* the f64 of a Number token, as the syntax tree holds it
number_value(value) == IF value.den = 1 THEN value.num ELSE value
\* the node id of a Variable or an Assign node
mint_id(p) == [p EXCEPT !.next_id = @ + 1]

\* self.tokens_iter.peek(), self.tokens_iter.next()
tokens_iter_peek(p) == IF p.pos < Len(p.tokens) THEN Some(p.tokens[p.pos + 1]) ELSE None
tokens_iter_next(p) == [p EXCEPT !.pos = @ + 1]
\* peek().map(|t| <t.kind is one of kinds>).unwrap_or(false), the test of next_if
peek_is(p, kinds) ==
    tokens_iter_peek(p) # None /\ tokens_iter_peek(p).x.kind.t \in kinds

\* fn error(token, message): lox::error_token(token, message), then the ParserError
error(p, token, message) ==
    PR([p EXCEPT !.errors = Append(@, [line |-> token.line, message |-> message,
                                       at |-> p.pos, token |-> token])],
       Err(ParserError(token.line, message)))

\* consume(token_type, error_message): Ok(token) is in `r`
consume(p, token_type, error_message) ==
    IF tokens_iter_peek(p) = None THEN PR(p, Panic("todo!()"))
    ELSE IF tokens_iter_peek(p).x.kind.t = token_type
    THEN PR(tokens_iter_next(p), Ok(tokens_iter_peek(p).x))
    ELSE error(p, tokens_iter_peek(p).x, error_message)

StatementStart == {"Class", "Fun", "Var", "For", "If", "While", "Print", "Return"}
should_consume(token) ==
    token.kind.t = "Semicolon" \/ token.kind.t \notin StatementStart

\* (a variant that skips to the next `;` whatever it meets)
RECURSIVE synchronize_to_semicolon(_)
synchronize_to_semicolon(p) ==
    IF tokens_iter_peek(p) = None THEN p
    ELSE IF tokens_iter_peek(p).x.kind.t = "Semicolon" THEN tokens_iter_next(p)
    ELSE synchronize_to_semicolon(tokens_iter_next(p))
\* while let Some(token) = next_if(should_consume) { if Semicolon { break } }
RECURSIVE synchronize(_)
synchronize(p) ==
    IF tokens_iter_peek(p) = None \/ ~should_consume(tokens_iter_peek(p).x) THEN p
    ELSE IF tokens_iter_peek(p).x.kind.t = "Semicolon" THEN tokens_iter_next(p)
    ELSE synchronize(tokens_iter_next(p))

RECURSIVE declaration(_), fun_declaration(_, _), parameters_loop(_, _, _),
          arguments_iteration(_), arguments_loop(_, _),
          var_declaration(_), statement(_), if_stmt(_), expr_stmt(_), block(_),
          block_loop(_, _), print_stmt(_), while_stmt(_), return_stmt(_),
          for_stmt(_), expression(_), assignment(_), assignment_from(_, _),
          conditional(_), logic_or(_), logic_or_loop(_, _), logic_and(_),
          logic_and_loop(_, _), equality(_), equality_loop(_, _), comparison(_),
          comparison_loop(_, _), addition(_), addition_loop(_, _),
          multiplication(_), multiplication_loop(_, _), unary(_),
          call(_), call_loop(_), finish_call(_, _), primary(_), primary_peeks(_)

\* let result = if Fun {..} else if Var {..} else { self.statement() };
\* if result.is_err() { self.synchronize(); }
declaration(p) ==
    LET logged(a, q) ==
            PR([q EXCEPT !.glog = Append(@, [ev |-> "declaration", began |-> p.pos,
                                             from |-> a.p.pos, to |-> q.pos,
                                             r |-> a.r])], a.r)
        result(a) == IF a.ok THEN logged(a, a.p)
                     ELSE IF IsErr(a.r) THEN logged(a, synchronize(a.p)) ELSE a
    IN  result(CASE peek_is(p, {"Fun"}) -> fun_declaration(tokens_iter_next(p), "Function")
                 [] peek_is(p, {"Var"}) -> var_declaration(tokens_iter_next(p))
                 [] OTHER -> statement(p))

\* The state of a loop over a comma-separated list: the parser, the list so
\* far (Ok) or what ended the loop early, and whether the loop is over.
LoopState(p, r, done) == [p |-> p, r |-> r, ok |-> r.k = "Ok", done |-> done]

\* one iteration of the loop over the parameters
parameters_iteration(s, token_name) ==
    LET more(c) ==
            IF ~c.ok THEN LoopState(c.p, c.r, TRUE)
            ELSE IF peek_is(c.p, {"Comma"})
            THEN LoopState(tokens_iter_next(c.p),
                           Ok(Append(s.r.v, lexeme_text(c.r.v.lexeme))), FALSE)
            ELSE LoopState(c.p, Ok(Append(s.r.v, lexeme_text(c.r.v.lexeme))), TRUE)
    IN  IF s.done THEN s
        ELSE IF Len(s.r.v) > MAX_FUN_ARGUMENTS
        THEN LoopState(s.p, Err(RuntimeError(lexeme_text(token_name.lexeme),
                                    "Reached maximum number of parameters(255)")), TRUE)
        ELSE more(consume(s.p, "Identifier", "Expected identifier"))

\* the loop over the parameters, which is over after at most n iterations
\* (an iteration consumes a token): the first half of them, then the rest
parameters_loop(s, token_name, n) ==
    IF s.done THEN s
    ELSE IF n <= 1 THEN parameters_iteration(s, token_name)
    ELSE parameters_loop(parameters_loop(s, token_name, n \div 2), token_name,
                         n - n \div 2)

fun_declaration(p, kind) ==
    LET function(token_name, parameters, b) ==
            IF b.ok
            THEN PR(b.p, Ok(Stmt_Function(lexeme_text(token_name.lexeme), parameters,
                                          b.r.v.statements)))
            ELSE b
        body(token_name, parameters, c) ==
            IF c.ok THEN function(token_name, parameters, block(c.p)) ELSE c
        brace(token_name, parameters, c) ==
            IF c.ok
            THEN body(token_name, parameters,
                      consume(c.p, "LeftBrace",
                              "Expected '{' before " \o kind \o " body."))
            ELSE c
        close(token_name, l) ==
            IF l.ok
            THEN brace(token_name, l.r.v,
                       consume(l.p, "RightParen",
                               "Expected ')' after " \o kind \o " parameters."))
            ELSE PR(l.p, l.r)
        params(token_name, c) ==
            IF ~c.ok THEN c
            ELSE IF tokens_iter_peek(c.p) # None /\ ~peek_is(c.p, {"RightParen"})
            THEN close(token_name,
                       parameters_loop(LoopState(c.p, Ok(<< >>), FALSE), token_name,
                                       Len(c.p.tokens)))
            ELSE close(token_name, PR(c.p, Ok(<< >>)))
        open(n) ==
            IF n.ok
            THEN params(n.r.v, consume(n.p, "LeftParen", "Expected '(' after " \o kind))
            ELSE n
    IN  open(consume(p, "Identifier", "Expected " \o kind \o " name"))

var_declaration(p) ==
    LET var(name, initializer, c) ==
            IF c.ok THEN PR(c.p, Ok(Stmt_Var(lexeme_text(name.lexeme), initializer)))
            ELSE c
        end(name, initializer, q) ==
            var(name, initializer,
                consume(q, "Semicolon", "Expect ; after variable declaration"))
        init(name, e) == IF e.ok THEN end(name, Some(e.r.v), e.p) ELSE e
        named(n) ==
            IF ~n.ok THEN n
            ELSE IF peek_is(n.p, {"Equal"})
            THEN init(n.r.v, expression(tokens_iter_next(n.p)))
            ELSE end(n.r.v, None, n.p)
    IN  named(consume(p, "Identifier", "Expect variable name"))

statement(p) ==
    CASE peek_is(p, {"If"}) -> if_stmt(tokens_iter_next(p))
      [] peek_is(p, {"Print"}) -> print_stmt(tokens_iter_next(p))
      [] peek_is(p, {"While"}) -> while_stmt(tokens_iter_next(p))
      [] peek_is(p, {"For"}) -> for_stmt(tokens_iter_next(p))
      [] peek_is(p, {"LeftBrace"}) -> block(tokens_iter_next(p))
      [] peek_is(p, {"Return"}) -> return_stmt(tokens_iter_next(p))
      [] OTHER -> expr_stmt(p)

if_stmt(p) ==
    LET with_else(cond, then_branch, e) ==
            IF e.ok THEN PR(e.p, Ok(Stmt_If(cond, then_branch, Some(e.r.v)))) ELSE e
        else_branch(cond, t) ==
            IF ~t.ok THEN t
            ELSE IF peek_is(t.p, {"Else"})
            THEN with_else(cond, t.r.v, statement(tokens_iter_next(t.p)))
            ELSE PR(t.p, Ok(Stmt_If(cond, t.r.v, None)))
        then_branch(cond, c) == IF c.ok THEN else_branch(cond, statement(c.p)) ELSE c
        close(e) ==
            IF e.ok
            THEN then_branch(e.r.v, consume(e.p, "RightParen",
                                            "expected ')' to close if conditional"))
            ELSE e
        cond(c) == IF c.ok THEN close(expression(c.p)) ELSE c
    IN  cond(consume(p, "LeftParen", "expected '(' after if"))

expr_stmt(p) ==
    LET stmt(expr, c) == IF c.ok THEN PR(c.p, Ok(Stmt_Expression(expr))) ELSE c
        end(e) ==
            IF ~e.ok THEN e
            ELSE IF e.p.allow_only_expression /\ peek_is(e.p, {"Eof"})
            THEN PR([e.p EXCEPT !.found_only_expr = TRUE], Ok(Stmt_Expression(e.r.v)))
            ELSE stmt(e.r.v, consume(e.p, "Semicolon", "Expected ; after expression"))
    IN  end(expression(p))

\* while peek() is neither RightBrace nor Eof { statements.push(self.declaration()?) }
block_loop(p, stmts) ==
    LET push(d) == IF d.ok THEN block_loop(d.p, Append(stmts, d.r.v)) ELSE d
    IN  IF tokens_iter_peek(p) # None /\ ~peek_is(p, {"RightBrace", "Eof"})
        THEN push(declaration(p))
        ELSE PR(p, Ok(stmts))

block(p) ==
    LET stmt(stmts, c) == IF c.ok THEN PR(c.p, Ok(Stmt_Block(stmts))) ELSE c
        close(l) ==
            IF l.ok
            THEN stmt(l.r.v, consume(l.p, "RightBrace", "Expected '}' after block."))
            ELSE l
    IN  close(block_loop(p, << >>))

print_stmt(p) ==
    LET stmt(expr, c) == IF c.ok THEN PR(c.p, Ok(Stmt_Print(expr))) ELSE c
        end(e) ==
            IF e.ok THEN stmt(e.r.v, consume(e.p, "Semicolon", "Expected ; after value"))
            ELSE e
    IN  end(expression(p))

while_stmt(p) ==
    LET stmt(cond, b) == IF b.ok THEN PR(b.p, Ok(Stmt_While(cond, b.r.v))) ELSE b
        body(cond, c) == IF c.ok THEN stmt(cond, statement(c.p)) ELSE c
        close(e) ==
            IF e.ok
            THEN body(e.r.v, consume(e.p, "RightParen", "Expected ')' after condition"))
            ELSE e
        cond(c) == IF c.ok THEN close(expression(c.p)) ELSE c
    IN  cond(consume(p, "LeftParen", "Expected '(' before condition"))

return_stmt(p) ==
    LET stmt(expr, c) == IF c.ok THEN PR(c.p, Ok(Stmt_Return(expr))) ELSE c
        end(e) ==
            IF e.ok
            THEN stmt(e.r.v, consume(e.p, "Semicolon",
                                     "Expected ; after return expression"))
            ELSE e
    IN  IF tokens_iter_peek(p) # None /\ ~peek_is(p, {"Semicolon"})
        THEN end(expression(p))
        ELSE end(PR(p, Ok(Expr_Nil)))

\* desugar for into while
\* if let Some(increment) = increment {
\*     block = Stmt::Block(vec![block, Stmt::Expression(increment)]); }
\* (a variant that puts the increment before the body)
with_increment_first(increment, stmt) ==
    IF increment = None THEN stmt
    ELSE Stmt_Block(<< Stmt_Expression(increment.x), stmt >>)
with_increment(increment, stmt) ==
    IF increment = None THEN stmt
    ELSE Stmt_Block(<< stmt, Stmt_Expression(increment.x) >>)
\* block = Stmt::While(condition or Expr::Boolean(true), Box::new(block));
with_condition(condition, stmt) ==
    IF condition = None THEN Stmt_While(Expr_Boolean(TRUE), stmt)
    ELSE Stmt_While(condition.x, stmt)
\* if let Some(initializer) = initializer {
\*     block = Stmt::Block(vec![initializer, block]); }
with_initializer(initializer, stmt) ==
    IF initializer = None THEN stmt
    ELSE Stmt_Block(<< initializer.x, stmt >>)

for_stmt(p) ==
    LET desugar(initializer, condition, increment, b) ==
            IF b.ok
            THEN PR(b.p, Ok(with_initializer(initializer,
                              with_condition(condition,
                                with_increment(increment, b.r.v)))))
            ELSE b
        body(initializer, condition, increment, c) ==
            IF c.ok THEN desugar(initializer, condition, increment, statement(c.p))
            ELSE c
        close(initializer, condition, i) ==
            IF i.ok
            THEN body(initializer, condition, i.r.v,
                      consume(i.p, "RightParen", "Expected ')' after for clauses"))
            ELSE i
        some(e) == IF e.ok THEN PR(e.p, Ok(Some(e.r.v))) ELSE e
        increment(initializer, condition, c) ==
            IF ~c.ok THEN c
            ELSE IF peek_is(c.p, {"RightParen"})
            THEN close(initializer, condition, PR(c.p, Ok(None)))
            ELSE close(initializer, condition, some(expression(c.p)))
        semicolon(initializer, k) ==
            IF k.ok
            THEN increment(initializer, k.r.v,
                           consume(k.p, "Semicolon", "Expected ';' after conditional"))
            ELSE k
        condition(i) ==
            IF ~i.ok THEN i
            ELSE IF peek_is(i.p, {"Semicolon"})
            THEN semicolon(i.r.v, PR(i.p, Ok(None)))
            ELSE semicolon(i.r.v, some(expression(i.p)))
        initializer(c) ==
            IF ~c.ok THEN c
            ELSE CASE peek_is(c.p, {"Var"}) ->
                        condition(some(var_declaration(tokens_iter_next(c.p))))
                   [] peek_is(c.p, {"Semicolon"}) ->
                        condition(PR(tokens_iter_next(c.p), Ok(None)))
                   [] OTHER -> condition(some(expr_stmt(c.p)))
    IN  initializer(consume(p, "LeftParen", "Expected '(' after for"))

expression(p) == assignment(p)

\* The value is a conditional, not an assignment.  The error of an invalid
\* target is reported and dropped: Ok(expr) all the same.
assignment_from(p, left) ==
    LET assign(expr, equals, v) ==
            IF expr.e = "Variable"
            THEN PR(mint_id(v.p), Ok(Expr_Assign(expr.token, v.r.v, v.p.next_id)))
            ELSE PR(error(v.p, equals, "Invalid assignment target").p, Ok(expr))
        parsed(c) ==
            IF c.ok
            THEN CASE left # None -> assign(left.x.expr, left.x.equals, c)
                   [] left = None /\ peek_is(c.p, {"Equal"}) ->
                        assignment_from(tokens_iter_next(c.p),
                            Some([expr |-> c.r.v, equals |-> tokens_iter_peek(c.p).x]))
                   [] OTHER -> c
            ELSE c
    IN  parsed(conditional(p))
\* let expr = self.conditional()?; if `=` follows { let value = self.conditional()?; .. }
assignment(p) == assignment_from(p, None)

conditional(p) ==
    LET node(cond, then_branch, e) ==
            IF e.ok THEN PR(e.p, Ok(Expr_Conditional(cond, then_branch, e.r.v))) ELSE e
        else_branch(cond, then_branch, c) ==
            IF c.ok THEN node(cond, then_branch, conditional(c.p)) ELSE c
        colon(cond, t) ==
            IF t.ok
            THEN else_branch(cond, t.r.v,
                     consume(t.p, "Colon",
                             "Expect ':' after then branch of conditional expression"))
            ELSE t
        question(c) ==
            IF c.ok
            THEN IF peek_is(c.p, {"Question"})
                 THEN colon(c.r.v, expression(tokens_iter_next(c.p)))
                 ELSE c
            ELSE c
    IN  question(logic_or(p))

\* Expr::LogicOr / Expr::LogicAnd / Expr::Binary / Expr::Unary of a parsed operand
logic_node(e, left, b) ==
    IF b.ok THEN PR(b.p, Ok([e |-> e, left |-> left, right |-> b.r.v])) ELSE b
binary_node(left, operator, b) ==
    IF b.ok THEN PR(b.p, Ok(Expr_Binary(left, lexeme_text(operator.lexeme), b.r.v)))
    ELSE b
unary_node(operator, b) ==
    IF b.ok THEN PR(b.p, Ok(Expr_Unary(lexeme_text(operator.lexeme), b.r.v))) ELSE b

\* The loops `let mut expr = operand()?; while let Some(operator) = next_if(..)
\* { let right = operand()?; expr = node(expr, operator, right); }`: `left` is
\* None before the first operand, then the expression so far and the operator.
logic_or_loop(p, left) ==
    LET node(b) == IF left = None THEN b ELSE logic_node("LogicOr", left.x.expr, b)
        more(b) ==
            IF b.ok
            THEN IF peek_is(b.p, {"Or"})
                 THEN logic_or_loop(tokens_iter_next(b.p),
                          Some([expr |-> b.r.v, operator |-> tokens_iter_peek(b.p).x]))
                 ELSE b
            ELSE b
    IN  more(node(logic_and(p)))
logic_or(p) == logic_or_loop(p, None)

logic_and_loop(p, left) ==
    LET node(b) == IF left = None THEN b ELSE logic_node("LogicAnd", left.x.expr, b)
        more(b) ==
            IF b.ok
            THEN IF peek_is(b.p, {"And"})
                 THEN logic_and_loop(tokens_iter_next(b.p),
                          Some([expr |-> b.r.v, operator |-> tokens_iter_peek(b.p).x]))
                 ELSE b
            ELSE b
    IN  more(node(equality(p)))
logic_and(p) == logic_and_loop(p, None)

equality_loop(p, left) ==
    LET node(b) == IF left = None THEN b ELSE binary_node(left.x.expr, left.x.operator, b)
        more(b) ==
            IF b.ok
            THEN IF peek_is(b.p, {"BangEqual", "EqualEqual"})
                 THEN equality_loop(tokens_iter_next(b.p),
                          Some([expr |-> b.r.v, operator |-> tokens_iter_peek(b.p).x]))
                 ELSE b
            ELSE b
    IN  more(node(comparison(p)))
equality(p) == equality_loop(p, None)

comparison_loop(p, left) ==
    LET node(b) == IF left = None THEN b ELSE binary_node(left.x.expr, left.x.operator, b)
        more(b) ==
            IF b.ok
            THEN IF peek_is(b.p, {"Greater", "GreaterEqual", "Less", "LessEqual"})
                 THEN comparison_loop(tokens_iter_next(b.p),
                          Some([expr |-> b.r.v, operator |-> tokens_iter_peek(b.p).x]))
                 ELSE b
            ELSE b
    IN  more(node(addition(p)))
comparison(p) == comparison_loop(p, None)

addition_loop(p, left) ==
    LET node(b) == IF left = None THEN b ELSE binary_node(left.x.expr, left.x.operator, b)
        more(b) ==
            IF b.ok
            THEN IF peek_is(b.p, {"Plus", "Minus"})
                 THEN addition_loop(tokens_iter_next(b.p),
                          Some([expr |-> b.r.v, operator |-> tokens_iter_peek(b.p).x]))
                 ELSE b
            ELSE b
    IN  more(node(multiplication(p)))
addition(p) == addition_loop(p, None)

multiplication_loop(p, left) ==
    LET node(b) == IF left = None THEN b ELSE binary_node(left.x.expr, left.x.operator, b)
        more(b) ==
            IF b.ok
            THEN IF peek_is(b.p, {"Slash", "Star"})
                 THEN multiplication_loop(tokens_iter_next(b.p),
                          Some([expr |-> b.r.v, operator |-> tokens_iter_peek(b.p).x]))
                 ELSE b
            ELSE b
    IN  more(node(unary(p)))
multiplication(p) == multiplication_loop(p, None)

\* the operand of `!` and `-` is a call: `--1` is a syntax error
unary(p) ==
    LET node(b) ==
            IF peek_is(p, {"Bang", "Minus"}) THEN unary_node(tokens_iter_peek(p).x, b)
            ELSE b
    IN  node(call(IF peek_is(p, {"Bang", "Minus"}) THEN tokens_iter_next(p) ELSE p))

call_loop(a) ==
    IF a.ok
    THEN IF peek_is(a.p, {"LeftParen"})
         THEN call_loop(finish_call(tokens_iter_next(a.p), a.r.v))
         ELSE a
    ELSE a
call(p) == call_loop(primary(p))

\* one iteration of the loop over the arguments
arguments_iteration(s) ==
    LET pushed(e) ==
            IF ~e.ok THEN LoopState(e.p, e.r, TRUE)
            ELSE IF Len(s.r.v) + 1 > MAX_FUN_ARGUMENTS
            THEN IF tokens_iter_peek(e.p) = None
                 THEN LoopState(e.p, Panic("unwrap"), TRUE)
                 ELSE LoopState(error(e.p, tokens_iter_peek(e.p).x,
                                      "Too many arguments").p,
                                Err(ParserError(tokens_iter_peek(e.p).x.line,
                                                "Too many arguments")), TRUE)
            ELSE IF peek_is(e.p, {"Comma"})
            THEN LoopState(tokens_iter_next(e.p), Ok(Append(s.r.v, e.r.v)), FALSE)
            ELSE LoopState(e.p, Ok(Append(s.r.v, e.r.v)), TRUE)
    IN  IF s.done THEN s ELSE pushed(expression(s.p))

\* the loop over the arguments, which is over after at most n iterations
arguments_loop(s, n) ==
    IF s.done THEN s
    ELSE IF n <= 1 THEN arguments_iteration(s)
    ELSE arguments_loop(arguments_loop(s, n \div 2), n - n \div 2)

finish_call(p, expr) ==
    LET node(arguments, c) ==
            IF c.ok THEN PR(c.p, Ok(Expr_Call(expr, arguments))) ELSE c
        close(l) ==
            IF l.ok
            THEN node(l.r.v, consume(l.p, "RightParen", "Expected ')' after arguments"))
            ELSE PR(l.p, l.r)
    IN  IF tokens_iter_peek(p) # None /\ ~peek_is(p, {"RightParen"})
        THEN close(arguments_loop(LoopState(p, Ok(<< >>), FALSE), Len(p.tokens)))
        ELSE close(PR(p, Ok(<< >>)))

\* (a variant that leaves the unexpected token in the iterator)
primary_peeks(p) ==
    LET grouping(e, c) == IF c.ok THEN PR(c.p, Ok(Expr_Grouping(e))) ELSE c
        close(e) ==
            IF e.ok
            THEN grouping(e.r.v, consume(e.p, "RightParen", "Expect ')' after expression"))
            ELSE e
        match(token, q) ==
            CASE token.kind.t = "LeftParen" -> close(expression(q))
              [] token.kind.t = "False" -> PR(q, Ok(Expr_Boolean(FALSE)))
              [] token.kind.t = "True" -> PR(q, Ok(Expr_Boolean(TRUE)))
              [] token.kind.t = "Nil" -> PR(q, Ok(Expr_Nil))
              [] token.kind.t = "Number" ->
                    PR(q, Ok(Expr_Number(number_value(token.kind.value))))
              [] token.kind.t = "String" ->
                    PR(q, Ok(Expr_String(lexeme_text(token.kind.value))))
              [] token.kind.t = "Identifier" ->
                    PR(mint_id(q), Ok(Expr_Variable(lexeme_text(token.lexeme), q.next_id)))
              [] OTHER -> error(p, token, "expected expression")
    IN  IF tokens_iter_peek(p) = None THEN PR(p, Panic("todo!()"))
        ELSE match(tokens_iter_peek(p).x, tokens_iter_next(p))
\* match self.tokens_iter.next() { Some(token) => .., None => todo!() }
primary(p) ==
    LET grouping(e, c) == IF c.ok THEN PR(c.p, Ok(Expr_Grouping(e))) ELSE c
        close(e) ==
            IF e.ok
            THEN grouping(e.r.v, consume(e.p, "RightParen", "Expect ')' after expression"))
            ELSE e
        match(token, q) ==
            CASE token.kind.t = "LeftParen" -> close(expression(q))
              [] token.kind.t = "False" -> PR(q, Ok(Expr_Boolean(FALSE)))
              [] token.kind.t = "True" -> PR(q, Ok(Expr_Boolean(TRUE)))
              [] token.kind.t = "Nil" -> PR(q, Ok(Expr_Nil))
              [] token.kind.t = "Number" ->
                    PR(q, Ok(Expr_Number(number_value(token.kind.value))))
              [] token.kind.t = "String" ->
                    PR(q, Ok(Expr_String(lexeme_text(token.kind.value))))
              [] token.kind.t = "Identifier" ->
                    PR(mint_id(q), Ok(Expr_Variable(lexeme_text(token.lexeme), q.next_id)))
              [] OTHER -> error(q, token, "expected expression")
    IN  IF tokens_iter_peek(p) = None THEN PR(p, Panic("todo!()"))
        ELSE match(tokens_iter_peek(p).x, tokens_iter_next(p))

\* ParseResult::List(Vec<Result<Stmt>>), ParseResult::SingleExpr(Result<Stmt>)
ParseResult_List(list) == [t |-> "List", list |-> list]
ParseResult_SingleExpr(r) == [t |-> "SingleExpr", r |-> r]

-----------------------------------------------------------------------------
(* The token lists the parser is run on                                    *)

\* longest generated token list, the closing Eof apart
MaxTokens == 3
\* most `(` of a generated token list
MaxNesting == 1
\* most parameters and arguments of the long declarations and calls
MaxParams == 257

Tok(t, text) == Token_new(TokenType(t), text, 1)
TokIdentifier(c) == Tok("Identifier", <<c>>)
TokNumber(n) == Token_new(TokenType_Number([num |-> n, den |-> 1]), <<"1">>, 1)
TokEof == Token_new(TokenType("Eof"), << >>, 1)
TokVar == Tok("Var", <<"v", "a", "r">>)
TokFun == Tok("Fun", <<"f", "u", "n">>)
TokPrint == Tok("Print", <<"p", "r", "i", "n", "t">>)
TokEqual == Tok("Equal", <<"=">>)
TokSemicolon == Tok("Semicolon", <<";">>)
TokLeftParen == Tok("LeftParen", <<"(">>)
TokRightParen == Tok("RightParen", <<")">>)
TokLeftBrace == Tok("LeftBrace", <<"{">>)
TokRightBrace == Tok("RightBrace", <<"}">>)
TokComma == Tok("Comma", <<",">>)
TokClass == Tok("Class", <<"c", "l", "a", "s", "s">>)

TokenAlphabet ==
    {TokIdentifier("a"), TokNumber(1), TokEqual, TokSemicolon, TokLeftParen,
     TokRightParen, TokLeftBrace, TokRightBrace, TokVar, TokFun, TokPrint, TokComma,
     TokClass}

RECURSIVE TokenTexts(_)
TokenTexts(n) ==
    IF n = 0 THEN {<< >>}
    ELSE TokenTexts(n - 1) \cup
         {Append(t, c) : t \in {u \in TokenTexts(n - 1) : Len(u) = n - 1},
                         c \in TokenAlphabet}

\* a, a, ... a (n names)
Names(n) ==
    [i \in 1 .. (IF n = 0 THEN 0 ELSE 2 * n - 1) |->
        IF i % 2 = 1 THEN TokIdentifier("a") ELSE TokComma]
\* fun a(a, .. a) { }
FunTokens(n) ==
    << TokFun, TokIdentifier("a"), TokLeftParen >> \o Names(n) \o
    << TokRightParen, TokLeftBrace, TokRightBrace, TokEof >>
\* a(a, .. a);
CallTokens(n) ==
    << TokIdentifier("a"), TokLeftParen >> \o Names(n) \o
    << TokRightParen, TokSemicolon, TokEof >>

\* { var ; print 1; } print 1;
TokensBadInBlock ==
    << TokLeftBrace, TokVar, TokSemicolon, TokPrint, TokNumber(1), TokSemicolon,
       TokRightBrace, TokPrint, TokNumber(1), TokSemicolon, TokEof >>
\* 1 = 1 print 1;
TokensBadTarget ==
    << TokNumber(1), TokEqual, TokNumber(1), TokPrint, TokNumber(1), TokSemicolon,
       TokEof >>
\* print 1; var = 1; a print 1; a
TokensRecover ==
    << TokPrint, TokNumber(1), TokSemicolon, TokVar, TokEqual, TokNumber(1),
       TokSemicolon, TokIdentifier("a"), TokPrint, TokNumber(1), TokSemicolon,
       TokIdentifier("a"), TokEof >>
\* a = a = 1;
TokensChain ==
    << TokIdentifier("a"), TokEqual, TokIdentifier("a"), TokEqual, TokNumber(1),
       TokSemicolon, TokEof >>

\* a ( a ,      and      ( a = ( a
TokensOpenCall ==
    << TokIdentifier("a"), TokLeftParen, TokIdentifier("a"), TokComma, TokEof >>
TokensOpenGroups ==
    << TokLeftParen, TokIdentifier("a"), TokEqual, TokLeftParen, TokIdentifier("a"),
       TokEof >>

TokenLists ==
    {Append(t, TokEof) :
        t \in {u \in TokenTexts(MaxTokens) :
                  Cardinality({i \in DOMAIN u : u[i] = TokLeftParen}) <= MaxNesting}} \cup
    {TokensOpenCall, TokensOpenGroups} \cup
    {FunTokens(n) : n \in (MAX_FUN_ARGUMENTS - 1) .. MaxParams} \cup
    {CallTokens(n) : n \in (MAX_FUN_ARGUMENTS - 1) .. MaxParams} \cup
    {TokensBadInBlock, TokensBadTarget, TokensRecover, TokensChain}

NoResolution == [rs |-> Resolver_new, r |-> [k |-> "Pending"]]
NoInterpreter == [envs |-> << >>, instances |-> << >>,
                  global_environment |-> 0, local_environment |-> 0,
                  expr_id_scope_depth |-> EmptyMap, stdout |-> << >>, now |-> 0,
                  trace |-> << >>, gdepth |-> 0, fuel |-> 0]

Init ==
    /\ statements \in Programs
    /\ phase = "resolve"
    /\ resolution = NoResolution
    /\ interpreter = NoInterpreter
    /\ pc = 0
    /\ reported = << >>
    /\ scanner = NoScanner
    /\ parser = NoParser

\* what the unused-variable scan of Resolver::run may yield for a program
UnusedCandidates(stmts) ==
    LET scan(a) == IF IsOk(a.r) THEN FirstUnused(a.rs) ELSE {None}
    IN  scan(resolve_stmts(Resolver_new, stmts))

\* let depth_map = Resolver::new().run(&stmts).map_err(..)?;
\* let mut interpreter = Interpreter::new();
\* interpreter.add_expr_ids_depth(depth_map);
run_file_resolve ==
    /\ phase = "resolve"
    /\ \E first_unused \in UnusedCandidates(statements) :
         /\ resolution' = Resolver_run(statements, first_unused)
         /\ IF IsOk(resolution'.r)
            THEN /\ \E now \in ClockReadings :
                      interpreter' = add_expr_ids_depth(Interpreter_new(now),
                                                        resolution'.r.v)
                 /\ phase' = "interpret"
                 /\ pc' = 1
            ELSE /\ phase' = "rejected"
                 /\ UNCHANGED <<interpreter, pc>>
    /\ UNCHANGED <<statements, reported, scanner, parser>>

\* One iteration of the loop of Interpreter::interpret:
\*   stmt.accept(self).unwrap_or_else(|err| lox::report_runtime(err));
interpret_step ==
    /\ phase = "interpret"
    /\ pc <= Len(statements)
    /\ LET step(a) ==
               /\ a.r.k # "OutOfFuel"
               /\ interpreter' = a.in
               /\ IF a.r.k = "Panic"
                  THEN phase' = "aborted" /\ UNCHANGED <<pc, reported>>
                  ELSE IF IsErr(a.r)
                  THEN /\ reported' = Append(reported,
                              [index |-> pc, err |-> a.r.e, at |-> Len(a.in.trace)])
                       /\ pc' = pc + 1
                       /\ UNCHANGED phase
                  ELSE pc' = pc + 1 /\ UNCHANGED <<phase, reported>>
       IN  step(execute([interpreter EXCEPT !.fuel = MaxFuel], statements[pc]))
    /\ UNCHANGED <<statements, resolution, scanner, parser>>

\* the loop of interpret is over and run_file returns
run_file_return ==
    /\ phase = "interpret"
    /\ pc > Len(statements)
    /\ phase' = "done"
    /\ UNCHANGED <<statements, resolution, interpreter, pc, reported, scanner, parser>>

Next == run_file_resolve \/ interpret_step \/ run_file_return

Spec == Init /\ [][Next]_vars

\* ---- Classes that hold their methods.  lox_class.rs and lox_instance.rs
\* are written for class objects made by LoxClass::new(name, methods) with
\* the declared methods; the programs below are run with such objects.

\* class C { init(x) { ... } m() { return this.x; } }
\* var o = C(n); ...
InitBodies ==
    LET set_x == Stmt_Expression(Expr_Set(Expr_This(1), "x", V("x", 2)))
        bad == Stmt_Expression(BadExpr)
    IN  { << set_x >>, << set_x, bad >>, << bad, set_x >>,
          << set_x, Stmt_Return(V("x", 3)) >>, << >> }
ClassTails ==
    { << Stmt_Expression(Expr_Get(V("o", 6), "x")) >>,
      << Stmt_Expression(Expr_Call(Expr_Get(V("o", 6), "m"), << >>)) >>,
      << Stmt_Expression(Expr_Set(V("o", 6), "m", Expr_Number(1))),
         Stmt_Expression(Expr_Get(V("o", 7), "m")) >>,
      << Stmt_Expression(Expr_Get(V("o", 6), "y")) >> }
ClassPrograms ==
    { << Stmt_Class("C", << Method("init", << "x" >>, body),
                            Method("m", << >>,
                                << Stmt_Return(Expr_Get(Expr_This(4), "x")) >>) >>),
         Stmt_Var("o", Some(Expr_Call(V("C", 5), << Expr_Number(n) >>))) >> \o tail :
      body \in InitBodies, n \in 1 .. MaxNum, tail \in ClassTails }

\* the method map handed to LoxClass::new: one UserFunction per declared
\* method, closed over the environment of the declaration
RECURSIVE methods_of(_, _, _)
methods_of(methods, closure, map) ==
    IF methods = << >> THEN map
    ELSE methods_of(Tail(methods), closure,
                    MapInsert(map, Head(methods).token,
                              UserFunction(Head(methods).params, Head(methods).body,
                                           closure)))

ClassInit ==
    /\ statements \in ClassPrograms
    /\ phase = "resolve"
    /\ resolution = NoResolution
    /\ interpreter = NoInterpreter
    /\ pc = 0
    /\ reported = << >>
    /\ scanner = NoScanner
    /\ parser = NoParser

\* a class statement, with the class given its methods
given_class_step ==
    /\ phase = "interpret"
    /\ pc <= Len(statements)
    /\ statements[pc].s = "Class"
    /\ LET local == interpreter.local_environment
           class == [LoxClass(statements[pc].token,
                              methods_of(statements[pc].methods, local, EmptyMap))
                       EXCEPT !.gdecl = statements[pc].methods]
       IN  interpreter' =
              Log([interpreter EXCEPT !.envs[local] =
                      Environment_define(@, statements[pc].token, Some(class))],
                  [ev |-> "class", token |-> statements[pc].token, env |-> local,
                   value |-> Some(class), gdepth |-> interpreter.gdepth])
    /\ pc' = pc + 1
    /\ UNCHANGED <<statements, resolution, phase, reported, scanner, parser>>

\* every other statement runs as in Interpreter::interpret
interpret_rest_step ==
    /\ phase = "interpret"
    /\ pc <= Len(statements)
    /\ statements[pc].s # "Class"
    /\ interpret_step

ClassNext ==
    run_file_resolve \/ given_class_step \/ interpret_rest_step \/ run_file_return

ClassSpec == ClassInit /\ [][ClassNext]_vars

\* ---- Scanner::scan_tokens on its own: lox::run up to the parser

ScanInit ==
    /\ scanner \in {Scanner_new(source) : source \in Sources}
    /\ statements = << >>
    /\ phase = "scan"
    /\ resolution = NoResolution
    /\ interpreter = NoInterpreter
    /\ pc = 0
    /\ reported = << >>
    /\ parser = NoParser

\* one iteration of `while !self.is_at_end() { self.start = self.current;
\* self.scan_token(); }`
scan_token_step ==
    /\ scanner.state = "scanning"
    /\ ~is_at_end(scanner)
    /\ scanner' = scan_token([scanner EXCEPT !.start = scanner.current])
    /\ UNCHANGED <<statements, phase, resolution, interpreter, pc, reported, parser>>

\* the loop is over: self.tokens.push(Token::new(TokenType::Eof, "", self.line))
scan_tokens_return ==
    /\ scanner.state = "scanning"
    /\ is_at_end(scanner)
    /\ scanner' = [scanner EXCEPT
                      !.tokens = Append(@, Token_new(TokenType("Eof"), << >>,
                                                     scanner.line)),
                      !.gends = Append(@, scanner.current),
                      !.state = "done"]
    /\ UNCHANGED <<statements, phase, resolution, interpreter, pc, reported, parser>>

ScanNext == scan_token_step \/ scan_tokens_return

ScanSpec == ScanInit /\ [][ScanNext]_vars

\* ---- Parser::parse on its own, on any token list that ends with Eof

ParseInit ==
    /\ parser \in {Parser_new(tokens, allow_only_expression) :
                      tokens \in TokenLists, allow_only_expression \in BOOLEAN}
    /\ scanner = NoScanner
    /\ statements = << >>
    /\ phase = "parse"
    /\ resolution = NoResolution
    /\ interpreter = NoInterpreter
    /\ pc = 0
    /\ reported = << >>

\* one iteration of the loop of parse, the peeked token not being Eof:
\*   let declaration = self.declaration();
\*   if self.found_only_expr { return ParseResult::SingleExpr(declaration); }
\*   parsed_list.push(declaration);
parse_step ==
    /\ parser.state = "parsing"
    /\ tokens_iter_peek(parser) # None
    /\ ~peek_is(parser, {"Eof"})
    /\ LET step(d) ==
               parser' =
                  IF d.r.k = "Panic" THEN [d.p EXCEPT !.state = "panicked"]
                  ELSE IF d.p.found_only_expr
                  THEN [d.p EXCEPT !.state = "done",
                                   !.result = ParseResult_SingleExpr(d.r)]
                  ELSE [d.p EXCEPT !.parsed_list = Append(@, d.r)]
       IN  step(declaration(parser))
    /\ UNCHANGED <<statements, phase, resolution, interpreter, pc, reported, scanner>>

\* the loop is over: ParseResult::List(parsed_list)
parse_return ==
    /\ parser.state = "parsing"
    /\ tokens_iter_peek(parser) = None \/ peek_is(parser, {"Eof"})
    /\ parser' = [parser EXCEPT !.state = "done",
                                !.result = ParseResult_List(parser.parsed_list)]
    /\ UNCHANGED <<statements, phase, resolution, interpreter, pc, reported, scanner>>

ParseNext == parse_step \/ parse_return

ParseSpec == ParseInit /\ [][ParseNext]_vars

\* ---- lox::run and run_file together: scan, parse, resolve, interpret
\* var i = 9; for (var i = 0; i < k; i = i + 1) print i; print i;
ForHead ==
    <<"v", "a", "r", " ", "i", " ", "=", " ", "9", ";", " ", "f", "o", "r",
      " ", "(", "v", "a", "r", " ", "i", " ", "=", " ", "0", ";", " ", "i",
      " ", "<", " ">>
ForTail ==
    <<";", " ", "i", " ", "=", " ", "i", " ", "+", " ", "1", ")", " ", "p",
      "r", "i", "n", "t", " ", "i", ";", " ", "p", "r", "i", "n", "t", " ",
      "i", ";">>
\* the decimal text of a number below ten
DigitOf == <<"0", "1", "2", "3", "4", "5", "6", "7", "8", "9">>
ForSource(k) == ForHead \o <<DigitOf[k + 1]>> \o ForTail
\* fun f() { var j = 0; for (;;) { if (j > 1) return j; j = j + 1; } } var r = f(); r;
SourceForNoClauses ==
    <<"f", "u", "n", " ", "f", "(", ")", " ", "{", " ", "v", "a", "r", " ",
      "j", " ", "=", " ", "0", ";", " ", "f", "o", "r", " ", "(", ";", ";",
      ")", " ", "{", " ", "i", "f", " ", "(", "j", " ", ">", " ", "1", ")",
      " ", "r", "e", "t", "u", "r", "n", " ", "j", ";", " ", "j", " ", "=",
      " ", "j", " ", "+", " ", "1", ";", " ", "}", " ", "}", " ", "v", "a",
      "r", " ", "r", " ", "=", " ", "f", "(", ")", ";", " ", "r", ";">>
\* fun f() { for (var j = 0;; j = j + 1) if (j > 0) return j; } var r = f(); r;
SourceForNoCondition ==
    <<"f", "u", "n", " ", "f", "(", ")", " ", "{", " ", "f", "o", "r", " ",
      "(", "v", "a", "r", " ", "j", " ", "=", " ", "0", ";", ";", " ", "j",
      " ", "=", " ", "j", " ", "+", " ", "1", ")", " ", "i", "f", " ", "(",
      "j", " ", ">", " ", "0", ")", " ", "r", "e", "t", "u", "r", "n", " ",
      "j", ";", " ", "}", " ", "v", "a", "r", " ", "r", " ", "=", " ", "f",
      "(", ")", ";", " ", "r", ";">>
\* @ print 1;
SourceUnknownCharacter ==
    <<"@", " ", "p", "r", "i", "n", "t", " ", "1", ";">>
\* 1 = 2; print 1;
SourceBadTarget ==
    <<"1", " ", "=", " ", "2", ";", " ", "p", "r", "i", "n", "t", " ", "1",
      ";">>
\* print 1; print ;
SourceBadStatement ==
    <<"p", "r", "i", "n", "t", " ", "1", ";", " ", "p", "r", "i", "n", "t",
      " ", ";">>
\* var a = 1; var b = 2; a = b = 2; print a + b;
SourceChain ==
    <<"v", "a", "r", " ", "a", " ", "=", " ", "1", ";", " ", "v", "a", "r",
      " ", "b", " ", "=", " ", "2", ";", " ", "a", " ", "=", " ", "b", " ",
      "=", " ", "2", ";", " ", "p", "r", "i", "n", "t", " ", "a", " ", "+",
      " ", "b", ";">>
\* var a = 1; a = 2; print a;
SourceGood ==
    <<"v", "a", "r", " ", "a", " ", "=", " ", "1", ";", " ", "a", " ", "=",
      " ", "2", ";", " ", "p", "r", "i", "n", "t", " ", "a", ";">>
ForSources == {ForSource(k) : k \in 0 .. MaxNum}
RunSources ==
    ForSources \cup
    {SourceSimple, SourceOpenComment, SourceStrings, SourceNonAscii,
     SourceNonAsciiComment} \cup
    {SourceForNoClauses, SourceForNoCondition, SourceUnknownCharacter,
     SourceBadTarget, SourceBadStatement, SourceChain, SourceGood}

RunInit ==
    /\ scanner \in {Scanner_new(source) : source \in RunSources}
    /\ parser = NoParser
    /\ statements = << >>
    /\ phase = "scan"
    /\ resolution = NoResolution
    /\ interpreter = NoInterpreter
    /\ pc = 0
    /\ reported = << >>

\* scanner.scan_tokens() returned:
\*   let mut parser = Parser::new(&scanner.tokens, false);
lox_run_parse ==
    /\ phase = "scan"
    /\ scanner.state = "done"
    /\ parser' = Parser_new(scanner.tokens, FALSE)
    /\ phase' = "parse"
    /\ UNCHANGED <<statements, resolution, interpreter, pc, reported, scanner>>

\* the Err entries of a parsed list
errs(list_result) == {i \in DOMAIN list_result : IsErr(list_result[i])}

\* parser.parse() returned: SingleExpr is unreachable!(); an empty vector if
\* the list holds an Err, else the statements of the list
lox_run_return ==
    /\ phase = "parse"
    /\ parser.state = "done"
    /\ IF parser.result.t = "SingleExpr"
       THEN phase' = "aborted" /\ UNCHANGED statements
       ELSE /\ phase' = "resolve"
            /\ statements' =
                  IF errs(parser.result.list) # {} THEN << >>
                  ELSE [i \in DOMAIN parser.result.list |-> parser.result.list[i].v]
    /\ UNCHANGED <<resolution, interpreter, pc, reported, scanner, parser>>

RunNext ==
    \/ scan_token_step
    \/ scan_tokens_return
    \/ lox_run_parse
    \/ parse_step
    \/ parse_return
    \/ lox_run_return
    \/ run_file_resolve
    \/ interpret_step
    \/ run_file_return

RunSpec == RunInit /\ [][RunNext]_vars

-----------------------------------------------------------------------------
(* Properties.  They are stated over the history the interpreter and the   *)
(* resolver record: interpreter.trace and resolution.rs.glog.              *)

Trace == interpreter.trace
ResolverLog == resolution.rs.glog
TopLevelEnvironment == 2

\* the binding event i of the trace writes to name `token` of environment `env`
WrittenAt(i, env, token) ==
    CASE Trace[i].ev \in {"var", "function", "class"} ->
            Trace[i].env = env /\ Trace[i].token = token
      [] Trace[i].ev \in {"assign_at", "assign_global"} ->
            Trace[i].reached = env /\ Trace[i].token = token /\ IsOk(Trace[i].r)
      [] Trace[i].ev = "call" ->
            Trace[i].env = env /\ MapHas(Trace[i].variables, token)
      [] OTHER -> FALSE

\* the Option<Object> that event i leaves in the binding it writes
WrittenValue(i, token) ==
    CASE Trace[i].ev \in {"var", "function", "class"} -> Trace[i].value
      [] Trace[i].ev \in {"assign_at", "assign_global"} -> Some(Trace[i].value)
      [] Trace[i].ev = "call" -> Trace[i].variables[token]

\* the events before i that wrote name `token` of environment `env`
WritesBefore(i, env, token) == {j \in 1..(i - 1) : WrittenAt(j, env, token)}
LastWriteBefore(i, env, token) ==
    CHOOSE j \in WritesBefore(i, env, token) :
        \A k \in WritesBefore(i, env, token) : k <= j

\* what Environment::get answers for a binding that holds `value`
ReadOf(value, token) ==
    IF value.t = "Some" THEN Ok(value.x)
    ELSE Err(RuntimeError(token, "Non initialized variable"))

\* C4: once interpret has reported the runtime error of a top-level
\* statement, no later top-level statement is executed: the history of the
\* interpreter ends with the statement that raised the error.
C4_RuntimeErrorStopsInterpret ==
    \A i \in DOMAIN reported : Len(Trace) = reported[i].at

\* C5: `/` and `*` on two numbers both yield a runtime error when the right
\* operand is zero, and the quotient / product otherwise.
C5_DivideAndMultiplyByZeroAlike ==
    \A i \in DOMAIN Trace :
        (/\ Trace[i].ev = "binary"
         /\ Trace[i].token \in {"/", "*"}
         /\ Trace[i].left.t = "Number"
         /\ Trace[i].right.t = "Number")
        => IF f64_eq(Trace[i].right, Number(0))
           THEN IsErr(Trace[i].r)
           ELSE Trace[i].r = Ok(IF Trace[i].token = "/"
                                THEN f64_div(Trace[i].left, Trace[i].right)
                                ELSE f64_mul(Trace[i].left, Trace[i].right))

\* C8: a read that has no entry in the depth map finds the binding of the
\* name among the program's top-level bindings when one has been made.
C8_DepthMapMissReadsTopLevelBinding ==
    \A i \in DOMAIN Trace :
        (/\ Trace[i].ev = "get_global"
         /\ WritesBefore(i, TopLevelEnvironment, Trace[i].token) # {})
        => Trace[i].r = ReadOf(WrittenValue(
               LastWriteBefore(i, TopLevelEnvironment, Trace[i].token),
               Trace[i].token), Trace[i].token)

\* C2: every block and every call of a user function leaves as current
\* environment the one that was current when it started, whether it ended
\* normally, with a runtime error or with a return; between two top-level
\* statements the current environment is the top-level one.
C2_EnvironmentRestoredOnEveryExit ==
    /\ \A i \in DOMAIN Trace :
          /\ Trace[i].ev = "block_exit" => Trace[i].after = Trace[i].before
          /\ Trace[i].ev = "call_return" => Trace[i].after = Trace[i].caller
    /\ phase \in {"interpret", "done"} =>
          interpreter.local_environment = TopLevelEnvironment

\* blocks below the top level were left normally, by a return and by a
\* runtime error that also ended a call made from a nested block
C2_Witness ==
    /\ phase = "done"
    /\ \E i, j \in DOMAIN Trace :
          /\ Trace[i].ev = "block_exit" /\ Trace[i].how = "RuntimeError"
          /\ Trace[i].gdepth > 0 /\ Trace[i].before # TopLevelEnvironment
          /\ Trace[j].ev = "call_return" /\ Trace[j].how = "RuntimeError"
          /\ Trace[j].caller # TopLevelEnvironment
    /\ \E i \in DOMAIN Trace :
          /\ Trace[i].ev = "block_exit" /\ Trace[i].how = "Return"
          /\ Trace[i].before # TopLevelEnvironment
    /\ \E i \in DOMAIN Trace :
          /\ Trace[i].ev = "block_exit" /\ Trace[i].how = "Ok"
          /\ Trace[i].before # TopLevelEnvironment

\* C3: a return ends the innermost call at once with its value: after the
\* return only blocks are left, up to the end of the call of the same depth,
\* whose result is the returned value; interpret never reports a Return; a
\* body that ends without return yields nil.
C3_ReturnEndsInnermostCall ==
    /\ \A i \in DOMAIN Trace :
          Trace[i].ev = "return" =>
             \E j \in (i + 1)..Len(Trace) :
                /\ Trace[j].ev = "call_return"
                /\ Trace[j].gdepth = Trace[i].gdepth
                /\ Trace[j].how = "Return"
                /\ Trace[j].r = Ok(Trace[i].value)
                /\ \A k \in (i + 1)..(j - 1) : Trace[k].ev = "block_exit"
    /\ \A i \in DOMAIN Trace :
          (Trace[i].ev = "call_return" /\ Trace[i].how = "Ok") => Trace[i].r = Ok(Nil)
    /\ \A i \in DOMAIN reported : reported[i].err.kind # "Return"

\* a return inside a block inside a while loop of a call made by another
\* call, and a body that ends without return
C3_Witness ==
    /\ phase = "done"
    /\ \E i \in DOMAIN Trace :
          /\ Trace[i].ev = "return" /\ Trace[i].gdepth = 2
          /\ i + 2 <= Len(Trace)
          /\ Trace[i + 1].ev = "block_exit" /\ Trace[i + 2].ev = "block_exit"
    /\ \E i \in DOMAIN Trace :
          Trace[i].ev = "call_return" /\ Trace[i].how = "Ok"

\* every read through the depth map answers with what was last written to
\* the name in the environment it reaches
ReadsSeeLastWrite ==
    \A i \in DOMAIN Trace :
        (Trace[i].ev = "get_at" /\ Trace[i].reached # 0) =>
            IF WritesBefore(i, Trace[i].reached, Trace[i].token) = {}
            THEN IsErr(Trace[i].r)
            ELSE Trace[i].r = ReadOf(WrittenValue(
                     LastWriteBefore(i, Trace[i].reached, Trace[i].token),
                     Trace[i].token), Trace[i].token)

\* C6: a function captures the environment current at its declaration, by
\* reference: the body of a call runs in a new environment whose parent is
\* that environment and not the caller's, and reads and assignments through
\* it go to the one shared binding, in every call and from every function
\* declared there.
C6_ClosureSharesDeclarationEnvironment ==
    /\ \A i \in DOMAIN Trace :
          /\ Trace[i].ev = "function" =>
                /\ Trace[i].closure = Trace[i].env
                /\ Trace[i].value.x.closure = Trace[i].env
          /\ Trace[i].ev = "call" =>
                /\ Trace[i].parent = Trace[i].function.closure
                /\ i < Len(Trace)
                /\ Trace[i + 1].ev = "block_enter"
                /\ Trace[i + 1].env = Trace[i].env
                /\ interpreter.envs[Trace[i].env].enclosing = Trace[i].function.closure
                /\ \A j \in 1..(i - 1) :
                      Trace[j].ev = "block_enter" => Trace[j].env # Trace[i].env
    /\ ReadsSeeLastWrite

\* two functions declared in a block are called after the block has been
\* left, from another environment: the second reads what the first assigned
C6_Witness ==
    /\ phase = "done"
    /\ \E b, c1, w, c2, r \in DOMAIN Trace :
          /\ b < c1 /\ c1 < w /\ w < c2 /\ c2 < r
          /\ Trace[b].ev = "block_exit"
          /\ Trace[c1].ev = "call" /\ Trace[c1].closure = Trace[b].env
          /\ Trace[c1].caller # Trace[b].env
          /\ Trace[w].ev = "assign_at" /\ Trace[w].reached = Trace[b].env
          /\ IsOk(Trace[w].r)
          /\ Trace[c2].ev = "call" /\ Trace[c2].closure = Trace[b].env
          /\ Trace[c2].function # Trace[c1].function
          /\ Trace[r].ev = "get_at" /\ Trace[r].reached = Trace[b].env
          /\ Trace[r].token = Trace[w].token
          /\ Trace[r].r = Ok(Trace[w].value)

\* C7: a var statement changes the binding of its name in the environment
\* that is current and nothing else: the bindings of every other
\* environment, the same name's included, stay as they were, and reads go
\* by the last write to the environment they reach.
C7_VarDefinesInCurrentEnvironmentOnly ==
    /\ \A i \in DOMAIN Trace :
          Trace[i].ev = "var" =>
             /\ Trace[i].envs_after =
                   [Trace[i].envs_before EXCEPT ![Trace[i].env].variables =
                        MapInsert(@, Trace[i].token, Trace[i].value)]
             /\ \E j \in 1..(i - 1) :
                   /\ Trace[j].ev = "stmt" /\ Trace[j].s = "Var"
                   /\ Trace[j].gdepth = Trace[i].gdepth
                   /\ Trace[j].env = Trace[i].env
                   /\ \A k \in (j + 1)..(i - 1) :
                         Trace[k].ev = "stmt" => Trace[k].gdepth > Trace[i].gdepth
    /\ ReadsSeeLastWrite

\* a name of the top level is declared again in a block: the read in the
\* block sees the inner value, the read after the block the outer one
C7_Witness ==
    /\ phase = "done"
    /\ \E v1, v2, r1, x, r2 \in DOMAIN Trace :
          /\ v1 < v2 /\ v2 < r1 /\ r1 < x /\ x < r2
          /\ Trace[v1].ev = "var" /\ Trace[v1].env = TopLevelEnvironment
          /\ Trace[v2].ev = "var" /\ Trace[v2].env # TopLevelEnvironment
          /\ Trace[v2].token = Trace[v1].token
          /\ Trace[v2].value # Trace[v1].value
          /\ Trace[r1].ev = "get_at" /\ Trace[r1].token = Trace[v1].token
          /\ Trace[r1].reached = Trace[v2].env
          /\ Trace[r1].r = Ok(Trace[v2].value.x)
          /\ Trace[x].ev = "block_exit" /\ Trace[x].env = Trace[v2].env
          /\ Trace[r2].ev = "get_at" /\ Trace[r2].token = Trace[v1].token
          /\ Trace[r2].reached = TopLevelEnvironment
          /\ Trace[r2].r = Ok(Trace[v1].value.x)

\* C1: a read or assignment that has a depth d reaches, d links out of the
\* current environment, the environment made for the scope in which the
\* resolver found the name: the chain of environments is the resolver's
\* stack of scopes at the reference, so the chain never runs out.
C1_DepthReachesDeclaringEnvironment ==
    \A i \in DOMAIN Trace :
        Trace[i].ev \in {"get_at", "assign_at"} =>
            /\ MapHas(resolution.rs.gstacks, Trace[i].id)
            /\ Trace[i].reached # 0
            /\ Trace[i].r.k # "Panic"
            /\ Trace[i].chain = resolution.rs.gstacks[Trace[i].id].stack
            /\ Len(Trace[i].chain) - Trace[i].distance =
                  resolution.rs.gstacks[Trace[i].id].found
            /\ Trace[i].distance = resolution.r.v[Trace[i].id]

\* a function reads and assigns a top-level name with depth 1, and reads a
\* name with depth 2 from a block of its body, while it is called from a
\* block nested in a block that has a binding of the same name
C1_Witness ==
    /\ phase = "done"
    /\ \E c, a, g \in DOMAIN Trace :
          /\ c < a /\ c < g
          /\ Trace[c].ev = "call" /\ Trace[c].caller # Trace[c].closure
          /\ interpreter.envs[Trace[c].caller].enclosing # TopLevelEnvironment
          /\ MapHas(interpreter.envs[interpreter.envs[Trace[c].caller].enclosing].variables,
                    "a")
          /\ Trace[a].ev = "assign_at" /\ Trace[a].distance = 1
          /\ Trace[a].token = "a" /\ IsOk(Trace[a].r)
          /\ Trace[a].reached = TopLevelEnvironment
          /\ Trace[g].ev = "get_at" /\ Trace[g].distance = 2
          /\ Trace[g].token = "a" /\ IsOk(Trace[g].r)
          /\ Trace[g].reached = TopLevelEnvironment

OwnInitializer == "Can't read local variable in its own initializer."
AlreadyDeclared == "Variable already declared"

\* the declarations that found their name in the innermost scope
FailedDeclares ==
    {i \in DOMAIN ResolverLog :
        ResolverLog[i].op = "declare" /\ ResolverLog[i].token \in ResolverLog[i].innermost}

\* C9: the resolver rejects the program when a variable expression reads a
\* name whose state in the innermost scope is Declared, whatever the scopes
\* around hold; it gives this error for no other read.
C9_ReadInOwnInitializerRejected ==
    /\ \A i \in DOMAIN ResolverLog :
          (ResolverLog[i].op = "read" /\ ResolverLog[i].state = "Declared") =>
             /\ IsErr(resolution.r)
             /\ \/ resolution.r.e = ResolverError(ResolverLog[i].token, OwnInitializer)
                \/ \E j \in FailedDeclares : j < i
    /\ (IsErr(resolution.r) /\ resolution.r.e.msg = OwnInitializer) =>
          /\ ResolverLog # << >>
          /\ ResolverLog[Len(ResolverLog)].op = "read"
          /\ ResolverLog[Len(ResolverLog)].token = resolution.r.e.token
          /\ ResolverLog[Len(ResolverLog)].state = "Declared"

\* in a block, the initializer of another variable reads a name of an outer
\* scope and the resolver goes on; the initializer of the name itself then
\* reads it and the program is rejected
C9_Witness ==
    /\ phase = "rejected"
    /\ resolution.r.e.msg = OwnInitializer
    /\ \E i, j \in DOMAIN ResolverLog :
          /\ i < j
          /\ ResolverLog[i].op = "read" /\ ResolverLog[i].state # "Declared"
          /\ ResolverLog[i].declared # {}
          /\ ~(ResolverLog[i].token \in ResolverLog[i].declared)
          /\ ResolverLog[j].op = "read" /\ ResolverLog[j].state = "Declared"
          /\ ResolverLog[j].token = ResolverLog[i].token
          /\ ResolverLog[j].token \in ResolverLog[j].outer

\* C10: declaring a name that the innermost scope already holds makes the
\* resolver return the "already declared" error for it; this error is given
\* for no other declaration, so a name of an enclosing scope may be
\* declared again.
C10_RedeclarationInSameScopeRejected ==
    /\ FailedDeclares # {} =>
          /\ IsErr(resolution.r)
          /\ \E i \in FailedDeclares :
                /\ \A j \in FailedDeclares : i <= j
                /\ resolution.r.e = ResolverError(ResolverLog[i].token, AlreadyDeclared)
    /\ (IsErr(resolution.r) /\ resolution.r.e.msg = AlreadyDeclared) =>
          \E i \in FailedDeclares : ResolverLog[i].token = resolution.r.e.token

\* a block declares a name of the top level again and the resolver goes
\* on; the second declaration of the name in the block is rejected
C10_Witness ==
    /\ phase = "rejected"
    /\ resolution.r.e.msg = AlreadyDeclared
    /\ \E i, j \in DOMAIN ResolverLog :
          /\ i < j
          /\ ResolverLog[i].op = "declare"
          /\ ResolverLog[i].token \in ResolverLog[i].outer
          /\ ~(ResolverLog[i].token \in ResolverLog[i].innermost)
          /\ ResolverLog[j].op = "declare"
          /\ ResolverLog[j].token = ResolverLog[i].token
          /\ ResolverLog[j].token \in ResolverLog[j].innermost

TopLevelReturn == "Can't return on top-level code"
ThisOutsideMethod == "Can't use 'this' outside of class methods"
DeclaredNotUsed == "Variable declared and not used"

\* the events of the resolver at which the code returns an error, and the
\* error it returns there
Rejecting(i) ==
    CASE ResolverLog[i].op = "declare" -> ResolverLog[i].token \in ResolverLog[i].innermost
      [] ResolverLog[i].op = "read" -> ResolverLog[i].state = "Declared"
      [] ResolverLog[i].op \in {"return", "this"} -> ResolverLog[i].rejected
      [] OTHER -> FALSE
RejectingEvents == {i \in DOMAIN ResolverLog : Rejecting(i)}
ErrorAt(i) ==
    CASE ResolverLog[i].op = "declare" -> ResolverError(ResolverLog[i].token, AlreadyDeclared)
      [] ResolverLog[i].op = "read" -> ResolverError(ResolverLog[i].token, OwnInitializer)
      [] ResolverLog[i].op = "return" -> ResolverError("return", TopLevelReturn)
      [] ResolverLog[i].op = "this" -> ResolverError("this", ThisOutsideMethod)

\* the scopes of function and method bodies among the scopes of a stack
FunctionScopes(stack) == {k \in DOMAIN stack : stack[k].kind = "Function"}
InnermostFunction(stack) ==
    CHOOSE k \in FunctionScopes(stack) : \A j \in FunctionScopes(stack) : j <= k

\* C11: the resolver rejects a return statement exactly when no scope of a
\* function or method body is open around it, whatever function bodies
\* have been resolved and closed before.
C11_ReturnOutsideFunctionRejected ==
    \A i \in DOMAIN ResolverLog :
        ResolverLog[i].op = "return" =>
            /\ ResolverLog[i].rejected <=> FunctionScopes(ResolverLog[i].stack) = {}
            /\ ResolverLog[i].rejected => IsErr(resolution.r)

\* a return in a nested function and a return of the outer function after
\* the nested declaration are accepted; the return at top level after the
\* declaration is rejected
C11_Witness ==
    /\ phase = "rejected"
    /\ resolution.r.e.msg = TopLevelReturn
    /\ \E i, j, k \in DOMAIN ResolverLog :
          /\ i < j /\ j < k
          /\ ResolverLog[i].op = "return" /\ ~ResolverLog[i].rejected
          /\ Cardinality(FunctionScopes(ResolverLog[i].stack)) = 2
          /\ ResolverLog[j].op = "return" /\ ~ResolverLog[j].rejected
          /\ Cardinality(FunctionScopes(ResolverLog[j].stack)) = 1
          /\ ResolverLog[k].op = "return" /\ ResolverLog[k].rejected

\* the body around a `this` is a method body: the innermost function scope
\* sits directly on the scope that holds the injected `this`
InMethodBody(stack) ==
    /\ FunctionScopes(stack) # {}
    /\ InnermostFunction(stack) > 1
    /\ stack[InnermostFunction(stack) - 1].kind = "This"

\* C12: the resolver accepts a `this` exactly when the body being resolved
\* is a method body, and then records for it the depth of the scope that
\* holds the injected `this` of that method; any other `this` is an error.
C12_ThisOnlyInMethodBody ==
    \A i \in DOMAIN ResolverLog :
        ResolverLog[i].op = "this" =>
            /\ ResolverLog[i].rejected <=> ~InMethodBody(ResolverLog[i].stack)
            /\ ResolverLog[i].rejected => IsErr(resolution.r)
            /\ ~ResolverLog[i].rejected =>
                  /\ MapHas(resolution.rs.gstacks, ResolverLog[i].id)
                  /\ resolution.rs.gstacks[ResolverLog[i].id].found =
                        InnermostFunction(ResolverLog[i].stack) - 1
                  /\ MapHas(resolution.rs.expr_id_scope_depth, ResolverLog[i].id)
                  /\ resolution.rs.expr_id_scope_depth[ResolverLog[i].id] =
                        Len(ResolverLog[i].stack) - InnermostFunction(ResolverLog[i].stack) + 1

\* a `this` in a block of a method body is accepted with depth 2; the
\* `this` of a function declared in the same method body is rejected
C12_Witness ==
    /\ phase = "rejected"
    /\ resolution.r.e.msg = ThisOutsideMethod
    /\ \E i, j \in DOMAIN ResolverLog :
          /\ i < j
          /\ ResolverLog[i].op = "this" /\ ~ResolverLog[i].rejected
          /\ resolution.rs.expr_id_scope_depth[ResolverLog[i].id] = 2
          /\ ResolverLog[j].op = "this" /\ ResolverLog[j].rejected
          /\ \E k \in DOMAIN ResolverLog[j].stack : ResolverLog[j].stack[k].kind = "This"

\* the variable expressions that resolved to name x of the top-level scope
ReadsOfTopLevel(x) ==
    {i \in DOMAIN ResolverLog :
        /\ ResolverLog[i].op = "read" /\ ResolverLog[i].token = x
        /\ ResolverLog[i].state # "Declared"
        /\ MapHas(resolution.rs.gstacks, ResolverLog[i].id)
        /\ resolution.rs.gstacks[ResolverLog[i].id].found = 1}
AssignsOfTopLevel(x) ==
    {i \in DOMAIN ResolverLog :
        /\ ResolverLog[i].op = "assign" /\ ResolverLog[i].token = x
        /\ MapHas(resolution.rs.gstacks, ResolverLog[i].id)
        /\ resolution.rs.gstacks[ResolverLog[i].id].found = 1}

C13_WitnessAccepted ==
    /\ phase = "done"
    /\ \E i \in DOMAIN ResolverLog :
          /\ ResolverLog[i].op = "declare" /\ ResolverLog[i].depth > 1
          /\ \A j \in DOMAIN ResolverLog :
                ResolverLog[j].op = "read" => ResolverLog[j].token # ResolverLog[i].token

\* C14: after the resolver has met an error it starts no statement except
\* those nested in the statement that failed; Resolver::run returns the
\* first error met; run_file then builds no interpreter, so no statement
\* is executed and nothing is reported.
C14_FirstResolverErrorStopsEverything ==
    /\ \A e \in RejectingEvents : \A j \in DOMAIN ResolverLog :
          (e < j /\ ResolverLog[j].op = "stmt") =>
              ResolverLog[j].depth > ResolverLog[e].sdepth
    /\ RejectingEvents # {} =>
          /\ IsErr(resolution.r)
          /\ \E e \in RejectingEvents :
                /\ \A j \in RejectingEvents : e <= j
                /\ resolution.r.e = ErrorAt(e)
    /\ (phase # "resolve" /\ IsErr(resolution.r)) =>
          /\ phase = "rejected"
          /\ interpreter = NoInterpreter
          /\ reported = << >>

\* the second of three top-level statements fails inside a block: the third
\* is never started
C14_Witness ==
    /\ phase = "rejected"
    /\ Len(statements) = 3
    /\ \E e \in RejectingEvents : ResolverLog[e].sdepth = 2
    /\ Cardinality({j \in DOMAIN ResolverLog :
                       ResolverLog[j].op = "stmt" /\ ResolverLog[j].depth = 1}) = 2
    /\ Trace = << >>

\* the arity a callable declares: the number of parameters of a function,
\* none for clock, those of init (or none) for a class
DeclaredArity(callable) ==
    CASE callable.impl = "UserFunction" -> Len(callable.params)
      [] callable.impl = "ClockFunction" -> 0
      [] callable.impl = "LoxClass" ->
            IF "init" \in DOMAIN callable.methods
            THEN Len(callable.methods["init"].params) ELSE 0
CallMatches(i) ==
    /\ Trace[i].callee.t = "Call"
    /\ DeclaredArity(Trace[i].callee) = Len(Trace[i].arguments)

\* C15: a call whose callee is not callable, or whose arguments are not as
\* many as the arity, answers with a runtime error and invokes nothing: the
\* body of a function is entered only right after a call whose checks
\* passed, with its i-th parameter bound to the i-th argument.
C15_CallChecksBeforeInvoking ==
    /\ \A i \in DOMAIN Trace :
          Trace[i].ev = "call_check" =>
             /\ (Trace[i].branch = "invoke") <=> CallMatches(i)
             /\ ~CallMatches(i) =>
                   /\ IsErr(Trace[i].r) /\ Trace[i].r.e.kind = "RuntimeError"
                   /\ i < Len(Trace) => Trace[i + 1].ev \notin {"call", "class_call"}
    /\ \A j \in DOMAIN Trace :
          Trace[j].ev = "class_call" =>
             /\ j > 1
             /\ Trace[j - 1].ev = "call_check"
             /\ Trace[j - 1].callee = Trace[j].class
             /\ CallMatches(j - 1)
    /\ \A j \in DOMAIN Trace :
          Trace[j].ev = "call" =>
             /\ j > 1
             /\ Trace[j - 1].ev \in {"call_check", "class_call"}
             /\ Trace[j - 1].ev = "call_check" =>
                   /\ Trace[j - 1].callee = Trace[j].function
                   /\ CallMatches(j - 1)
             /\ DOMAIN Trace[j].variables =
                   {Trace[j].function.params[k] : k \in DOMAIN Trace[j].function.params}
             /\ \A k \in DOMAIN Trace[j].function.params :
                   Trace[j].variables[Trace[j].function.params[k]] =
                      Some(Trace[j - 1].arguments[k])

\* one run calls a number, calls a function of two parameters with one and
\* with three arguments, and calls it with two different arguments
C15_Witness ==
    /\ phase = "done"
    /\ \E a, b, c, d \in DOMAIN Trace :
          /\ Trace[a].ev = "call_check" /\ Trace[a].branch = "not_callable"
          /\ Trace[b].ev = "call_check" /\ Trace[b].branch = "arity"
          /\ Len(Trace[b].arguments) < DeclaredArity(Trace[b].callee)
          /\ Trace[c].ev = "call_check" /\ Trace[c].branch = "arity"
          /\ Len(Trace[c].arguments) > DeclaredArity(Trace[c].callee)
          /\ Trace[d].ev = "call" /\ Len(Trace[d].function.params) = 2
          /\ Trace[d].variables["x"] # Trace[d].variables["y"]
    /\ Cardinality({i \in DOMAIN reported : reported[i].err.kind = "RuntimeError"}) = 3

\* the method of that name of a class declaration, if it has one
DeclaredMethod(methods, name) ==
    IF \E k \in DOMAIN methods : methods[k].token = name
    THEN Some(methods[CHOOSE k \in DOMAIN methods :
                        /\ methods[k].token = name
                        /\ \A l \in DOMAIN methods :
                              methods[l].token = name => l <= k])
    ELSE None
DeclaredInit(methods) == DeclaredMethod(methods, "init")

ClassCalls == {i \in DOMAIN Trace :
                 /\ Trace[i].ev = "call_check"
                 /\ Trace[i].callee.t = "Call"
                 /\ Trace[i].callee.impl = "LoxClass"}

\* C16: a call of a class is accepted exactly with as many arguments as the
\* init of its declaration has parameters (none without an init); it makes
\* an instance that did not exist, runs that init with `this` bound to the
\* instance and the arguments as parameters, and answers the instance.
C16_ClassCallRunsDeclaredInit ==
    \A i \in ClassCalls :
       LET init == DeclaredInit(Trace[i].callee.gdecl)
           arity == IF init.t = "Some" THEN Len(init.x.params) ELSE 0
       IN  /\ (Trace[i].branch = "invoke") <=> (Len(Trace[i].arguments) = arity)
           /\ Trace[i].branch = "invoke" =>
                 /\ i < Len(Trace)
                 /\ Trace[i + 1].ev = "class_call"
                 /\ \A j \in 1 .. i :
                       Trace[j].ev = "class_call" =>
                          Trace[j].instance # Trace[i + 1].instance
                 /\ Trace[i + 1].fields = EmptyMap
                 /\ init.t = "Some" =>
                       /\ i + 1 < Len(Trace)
                       /\ Trace[i + 2].ev = "call"
                       /\ Trace[i + 2].function.params = init.x.params
                       /\ Trace[i + 2].function.body = init.x.body
                 /\ \A j \in DOMAIN Trace :
                       (Trace[j].ev = "class_return"
                          /\ Trace[j].instance = Trace[i + 1].instance) =>
                             /\ Trace[j].r = Ok(ClassInstance(Trace[i + 1].instance))
                             /\ (Trace[j].init.t = "Some") <=> (init.t = "Some")

\* the class calls whose init ended with a runtime error
InitFailed == {j \in DOMAIN Trace :
                 /\ Trace[j].ev = "class_return"
                 /\ Trace[j].init.t = "Some"
                 /\ IsErr(Trace[j].init.x)
                 /\ Trace[j].init.x.e.kind = "RuntimeError"}

\* C17: a class call whose init ended with a runtime error answers that
\* error, not an instance.
C17_InitErrorReachesCaller ==
    \A j \in InitFailed : Trace[j].r = Trace[j].init.x

\* event i reads a property that is not a field of the instance
MethodGet(i) ==
    /\ Trace[i].ev = "get"
    /\ Trace[i].token \notin DOMAIN Trace[i].fields
\* a function value is the method `m` bound to `instance`
BoundMethod(f, m, instance) ==
    /\ f.t = "Call" /\ f.impl = "UserFunction"
    /\ f.params = m.params /\ f.body = m.body
    /\ "this" \in DOMAIN interpreter.envs[f.closure].variables
    /\ interpreter.envs[f.closure].variables["this"] = Some(ClassInstance(instance))

\* C18: get answers the field of that name, else the declared method of
\* that name bound to the instance, else a runtime error; set writes the
\* field map only and the run goes on, so that a later get of the name
\* answers the value set; get and set on other values are runtime errors.
C18_PropertyGetAndSet ==
    /\ (phase = "aborted" /\ Trace # << >>) => Trace[Len(Trace)].ev # "set_begin"
    /\ \A i \in DOMAIN Trace :
          Trace[i].ev = "get" =>
             LET m == DeclaredMethod(Trace[i].class.gdecl, Trace[i].token)
             IN  IF ~MethodGet(i)
                 THEN Trace[i].r = Ok(Trace[i].fields[Trace[i].token])
                 ELSE IF m.t = "Some"
                 THEN /\ IsOk(Trace[i].r)
                      /\ BoundMethod(Trace[i].r.v, m.x, Trace[i].instance)
                 ELSE /\ IsErr(Trace[i].r)
                      /\ Trace[i].r.e.kind = "RuntimeError"
    /\ \A i \in DOMAIN Trace :
          Trace[i].ev = "set" =>
             /\ Trace[i].after.class = Trace[i].before.class
             /\ Trace[i].after.fields =
                   MapInsert(Trace[i].before.fields, Trace[i].token, Trace[i].value)
             /\ \A j \in DOMAIN Trace :
                   (/\ j > i
                    /\ Trace[j].ev = "get"
                    /\ Trace[j].instance = Trace[i].instance
                    /\ Trace[j].token = Trace[i].token
                    /\ \A k \in (i + 1) .. (j - 1) :
                          ~(Trace[k].ev = "set"
                              /\ Trace[k].instance = Trace[i].instance
                              /\ Trace[k].token = Trace[i].token)) =>
                      Trace[j].r = Ok(Trace[i].value)
    /\ \A i \in DOMAIN Trace :
          Trace[i].ev \in {"get_error", "set_error"} =>
             /\ Trace[i].object.t # "ClassInstance"
             /\ \E e \in DOMAIN reported :
                   /\ reported[e].err.kind = "RuntimeError"
                   /\ reported[e].err.token = Trace[i].token

Assigns == {i \in DOMAIN Trace :
              Trace[i].ev \in {"assign_at", "assign_global"} /\ Trace[i].reached # 0}
Gets == {i \in DOMAIN Trace :
           Trace[i].ev \in {"get_at", "get_global"} /\ Trace[i].reached # 0}
\* the name is bound in those variables, with or without a value
Declared(variables, token) == token \in DOMAIN variables

\* C19: an assign to a name the target environment does not bind answers a
\* runtime error and changes no environment, an assign to a bound name sets
\* that binding only; a get of a name that is not bound, or bound without a
\* value, answers a runtime error; the get that follows a successful assign
\* of the name answers the value assigned.
C19_AssignNeverCreatesGetChecks ==
    /\ \A i \in Assigns :
          IF Declared(Trace[i].before[Trace[i].reached].variables, Trace[i].token)
          THEN /\ Trace[i].r = Ok(Unit)
               /\ Trace[i].after =
                     [Trace[i].before EXCEPT ![Trace[i].reached].variables =
                         MapInsert(@, Trace[i].token, Some(Trace[i].value))]
          ELSE /\ IsErr(Trace[i].r)
               /\ Trace[i].r.e.kind = "RuntimeError"
               /\ Trace[i].after = Trace[i].before
    /\ \A j \in Gets :
          IF /\ Declared(Trace[j].variables, Trace[j].token)
             /\ Trace[j].variables[Trace[j].token].t = "Some"
          THEN Trace[j].r = Ok(Trace[j].variables[Trace[j].token].x)
          ELSE IsErr(Trace[j].r) /\ Trace[j].r.e.kind = "RuntimeError"
    /\ \A i \in Assigns : \A j \in Gets :
          (/\ i < j
           /\ IsOk(Trace[i].r)
           /\ Trace[j].reached = Trace[i].reached
           /\ Trace[j].token = Trace[i].token
           /\ \A k \in (i + 1) .. (j - 1) :
                 ~WrittenAt(k, Trace[i].reached, Trace[i].token)) =>
              Trace[j].r = Ok(Trace[i].value)

\* one run assigns to a name nothing binds, reads that name, reads a
\* variable declared without a value, and reads variables after assigning
\* to them, at the top level and in a block
C19_Witness ==
    /\ phase = "done"
    /\ \E i \in Assigns : \E j \in Gets :
          /\ i < j
          /\ IsErr(Trace[i].r) /\ IsErr(Trace[j].r)
          /\ Trace[j].token = Trace[i].token
          /\ ~Declared(Trace[j].variables, Trace[j].token)
    /\ \E j \in Gets :
          /\ Declared(Trace[j].variables, Trace[j].token)
          /\ IsErr(Trace[j].r)
    /\ \E i \in Assigns : \E j \in Gets :
          /\ i < j
          /\ Trace[i].ev = "assign_at" /\ Trace[i].distance = 1
          /\ Trace[j].reached = Trace[i].reached
          /\ Trace[j].token = Trace[i].token
          /\ Trace[j].r = Ok(Trace[i].value)

\* the token list is one or more tokens, the last of them the only Eof
EndsWithOneEof(tokens) ==
    /\ tokens # << >>
    /\ \A i \in DOMAIN tokens : (tokens[i].kind.t = "Eof") <=> (i = Len(tokens))

\* C20: scan_tokens terminates for every source text: each scan_token moves
\* the cursor forward by at least one character, never past the end of the
\* text, and hands control back to the loop; and the token list the loop
\* leaves ends with exactly one Eof, its last element.
C20_ScanTerminatesWithOneEof ==
    [][(scan_token_step =>
           /\ scanner'.current > scanner.current
           /\ scanner'.current <= String_len(scanner.source)
           /\ scanner'.state = "scanning")
       /\ (scan_tokens_return =>
           /\ scanner'.state = "done"
           /\ EndsWithOneEof(scanner'.tokens))]_vars

\* the characters that start a token, a comment or white space
StartsSomething ==
    DOMAIN SingleCharacter \cup DOMAIN WithEqual \cup Digits \cup Letters
        \cup {"/", " ", "\r", "\n", "\"", "_"}
\* the character under the cursor starts nothing
AtUnknownCharacter ==
    /\ chars_nth(scanner.source, scanner.current) # None
    /\ chars_nth(scanner.source, scanner.current).x \notin StartsSomething

\* C21: the scanner never aborts, and a character that starts no token is
\* reported, gives no token and is stepped over, the scan going on with the
\* character after it.
C21_ScannerNeverAborts ==
    [][scan_token_step =>
          /\ scanner'.state = "scanning"
          /\ AtUnknownCharacter =>
                /\ scanner'.tokens = scanner.tokens
                /\ Len(scanner'.errors) = Len(scanner.errors) + 1
                /\ scanner'.errors[Len(scanner'.errors)].message = "Unexpected character."
                /\ scanner'.current = scanner.current + 1]_vars

\* the first position from `from` on (a count of characters before it) where
\* the text holds `what`, None when it does not
FirstAt(source, from, what) ==
    LET hits == {k \in from .. (Len(source) - Len(what)) :
                    SubSeq(source, k + 1, k + Len(what)) = what}
    IN  IF hits = {} THEN None
        ELSE Some(CHOOSE k \in hits : \A l \in hits : k <= l)
\* the cursor is at the two characters `what`
CursorAt(what) ==
    /\ scanner.current + 2 <= Len(scanner.source)
    /\ SubSeq(scanner.source, scanner.current + 1, scanner.current + 2) = what

\* C22: a line comment ends before the next newline (or at the end of the
\* text), a block comment after the first `*/` that follows its `/*`; both
\* add no token and report nothing.  A block comment that is not closed is
\* reported as unterminated, adds no token and ends the scan, whose token
\* list is then the tokens before it and Eof.
C22_CommentsProduceNoTokens ==
    [][scan_token_step =>
          /\ CursorAt(<<"/", "/">>) =>
                /\ scanner'.state = "scanning"
                /\ scanner'.tokens = scanner.tokens
                /\ scanner'.errors = scanner.errors
                /\ LET newline == FirstAt(scanner.source, scanner.current + 2, <<"\n">>)
                   IN  scanner'.current =
                          IF newline = None THEN Len(scanner.source) ELSE newline.x
          /\ CursorAt(<<"/", "*">>) =>
                LET close == FirstAt(scanner.source, scanner.current + 2, <<"*", "/">>)
                IN  /\ scanner'.state = "scanning"
                    /\ scanner'.tokens = scanner.tokens
                    /\ IF close # None
                       THEN /\ scanner'.errors = scanner.errors
                            /\ scanner'.current = close.x + 2
                       ELSE /\ Len(scanner'.errors) = Len(scanner.errors) + 1
                            /\ scanner'.errors[Len(scanner'.errors)].message =
                                  "Unterminated block comment."
                            /\ is_at_end(scanner')]_vars

\* the newline characters among the first n characters of a text
Newlines(source, n) == Cardinality({k \in 1 .. n : k <= Len(source) /\ source[k] = "\n"})

\* C28: the line of every token, and of every error report, is 1 plus the
\* number of newlines that precede its last character, those inside block
\* comments and string literals included.
C28_LinesCountEveryNewline ==
    /\ \A i \in DOMAIN scanner.tokens :
          scanner.tokens[i].line = 1 + Newlines(scanner.source, scanner.gends[i])
    /\ \A i \in DOMAIN scanner.errors :
          scanner.errors[i].line = 1 + Newlines(scanner.source, scanner.errors[i].at)

-----------------------------------------------------------------------------
(* Properties of the parser, stated over parser.glog (one event per call    *)
(* of declaration that returned), parser.errors and the ParseResult.        *)

Declarations == parser.glog
\* the calls of declaration made by the loop of parse: no other call encloses them
TopLevel(e) ==
    ~\E j \in DOMAIN Declarations :
        Declarations[j].began < e.began /\ Declarations[j].to >= e.to
TopLevelDeclarations == SelectSeq(Declarations, TopLevel)

\* C29: for every token list that ends with Eof, parse returns without
\* panicking: every call of declaration consumes at least one token and the
\* parser never asks for a token after the last one (the todo!() of primary
\* and of consume are not reached), also while it recovers at the end of input.
C29_ParseTerminatesWithoutPanic ==
    /\ parser.state # "panicked"
    /\ parser.pos <= Len(parser.tokens)
    /\ \A i \in DOMAIN Declarations :
          /\ Declarations[i].to > Declarations[i].began
          /\ Declarations[i].r.k # "Panic"
    /\ parser.state = "parsing" =>
          Len(parser.parsed_list) <= parser.pos

\* parse returned after it recovered from an error at the end of the input
C29_Witness ==
    /\ parser.state = "done"
    /\ parser.tokens = TokensOpenCall
    /\ parser.pos = Len(parser.tokens)
    /\ Len(parser.errors) = 1
    /\ Len(Declarations) = 1 /\ IsErr(Declarations[1].r)

C24_OneDiagnosticPerStatement ==
    [][parse_step => Len(parser'.errors) <= Len(parser.errors) + 1]_vars

\* C25: more than 255 parameters, and more than 255 arguments, are a parse
\* error and no panic; exactly 255 of either are accepted.
C25_CapOfParametersAndArguments ==
    /\ parser.state # "panicked"
    /\ (parser.state = "done" /\ parser.result.t = "List") =>
          \A n \in 0 .. MaxParams :
              parser.tokens \in {FunTokens(n), CallTokens(n)} =>
                  /\ Len(parser.result.list) = 1
                  /\ (n > MAX_FUN_ARGUMENTS) => IsErr(parser.result.list[1])
                  /\ (n = MAX_FUN_ARGUMENTS) => IsOk(parser.result.list[1])

\* C30: `a = a = 1;` parses without error as Assign(a, Assign(a, 1)).
C30_AssignmentIsRightAssociative ==
    (parser.state = "done" /\ parser.tokens = TokensChain
                          /\ ~parser.allow_only_expression) =>
        /\ parser.errors = << >>
        /\ Len(parser.result.list) = 1
        /\ IsOk(parser.result.list[1])
        /\ parser.result.list[1].v.s = "Expression"
        /\ parser.result.list[1].v.expr.e = "Assign"
        /\ parser.result.list[1].v.expr.token = "a"
        /\ parser.result.list[1].v.expr.value.e = "Assign"
        /\ parser.result.list[1].v.expr.value.token = "a"
        /\ parser.result.list[1].v.expr.value.value = Expr_Number(1)

-----------------------------------------------------------------------------
(* Properties of the whole pipeline (RunSpec).                              *)

\* what an event of the run of ForSource(k) is in the loop: the declaration
\* of the loop variable, the test `i < k`, the body `print i` or the
\* increment `i = i + 1`; "-" for every other event
ForMark(e) ==
    CASE e.ev = "var" /\ e.env > 2 -> "init"
      [] e.ev = "binary" /\ e.token = "<" -> "cond"
      [] e.ev = "stmt" /\ e.s = "Print" /\ e.env > 2 -> "body"
      [] e.ev = "assign_at" /\ e.token = "i" -> "incr"
      [] OTHER -> "-"
ForMarks ==
    LET IsMark(m) == m # "-"
    IN  SelectSeq([i \in DOMAIN Trace |-> ForMark(Trace[i])], IsMark)
\* init, then k rounds of cond, body, incr, then the test that ends the loop
ForOrder(k) ==
    <<"init">> \o [i \in 1 .. 3 * k |-> <<"cond", "body", "incr">>[((i - 1) % 3) + 1]]
               \o <<"cond">>
\* the value that `var r = f();` gave r
ValuesOfR == {Trace[i].value : i \in {j \in DOMAIN Trace :
                                        Trace[j].ev = "var" /\ Trace[j].token = "r"}}

\* C26: a for statement runs its initializer once, then condition, body and
\* increment in that order while the condition is truthy; a missing
\* condition loops as `true`; the variable of the initializer lives in a
\* block around the loop only, so that a read after the loop does not see it.
C26_ForRunsAsInitWhileBodyIncrement ==
    /\ \A k \in 0 .. MaxNum :
          (phase = "done" /\ scanner.source = ForSource(k)) =>
              /\ reported = << >>
              /\ ForMarks = ForOrder(k)
              /\ interpreter.stdout =
                    [i \in 1 .. k + 1 |-> IF i <= k THEN DigitOf[i] ELSE "9"]
              /\ Trace[Len(Trace)].ev = "get_at"
              /\ Trace[Len(Trace)].reached = 2
              /\ Trace[Len(Trace)].r = Ok(Number(9))
    /\ (phase = "done" /\ scanner.source = SourceForNoCondition) =>
          ValuesOfR = {Some(Number(1))}
    /\ (phase = "done" /\ scanner.source = SourceForNoClauses) =>
          ValuesOfR = {Some(Number(2))}

\* the loop with two rounds ran to its end and the program printed 0, 1, 9
C26_Witness ==
    /\ phase = "done"
    /\ scanner.source = ForSource(2)
    /\ interpreter.stdout = <<"0", "1", "9">>
    /\ Len(ForMarks) = 8

\* C27: one source text gives statements to interpret or errors, never both:
\* once the scanner or the parser has reported an error, lox::run returns no
\* statement and nothing of the source is executed.
C27_StatementsOrErrorsNeverBoth ==
    (scanner.errors # << >> \/ parser.errors # << >>) =>
        /\ statements = << >>
        /\ interpreter.trace = << >>
        /\ interpreter.stdout = << >>

=============================================================================
